---- MODULE Spec2Model ----
(***************************************************************************)
(* A model of random_file_opener.py: the bounded LRU cache, the exclusion  *)
(* rules, the directory scan with its time-to-live cache, the durable      *)
(* history (load / atomic save) and the run() workflow of RandomFileOpener.*)
(***************************************************************************)
EXTENDS Integers, Sequences, FiniteSets, TLC

(***************************************************************************)
(* Bounds of the model                                                     *)
(***************************************************************************)
\* run() calls started in all
MaxRuns == 3
\* events of the environment: a second passing on the clock, a change of
\* the directory (a file added or removed, access lost or regained), an
\* I/O error met by save_history
MaxEvents == 1
\* kills of the process (each followed by a start of a new one)
MaxCrashes == 1
\* cache operations of one SimpleLRUCache scenario
MaxOps == 5
\* get_file_hash calls and changes of files in all
MaxHashOps == 4
\* the latest modification time a file is given
MaxMtime == 1
\* the largest Config.max_retries an engine is configured with
MaxRetries == 4

\* the highest cache size a Config is given
MaxCacheSize == 3

\* calls of methods that take locks, by both callers together
MaxLockOps == 3

\* SimpleLRUCache(max_size): the capacity of the cache of the scenario
max_size == 2

None == "None"

(***************************************************************************)
(* Config (the configuration instance the model runs under)                *)
(***************************************************************************)
\* Config.cache_ttl, a configured number of seconds (the instance sets 1)
cache_ttl == 1

\* Config.exclude_symlinks
exclude_symlinks == TRUE

\* Config.exclude_patterns: entries of the default list, then the essential
\* excludes __init__ appends (the script, the history, log and config files)
exclude_patterns ==
  << <<"*", ".", "p", "y", "c">>,
     <<"*", ".", "t", "m", "p">>,
     <<"~", "$", "*">>,
     <<"T", "h", "u", "m", "b", "s", ".", "d", "b">>,
     <<"*", ".", "l", "o", "g">>,
     <<".", "h", "i", "s", "t">> >>

\* Config.system_executable_extensions (already lower case)
system_executable_extensions ==
  << <<".", "e", "x", "e">>, <<".", "s", "h">>, <<".", "o">> >>

(***************************************************************************)
(* File names: the model's names and their characters                      *)
(***************************************************************************)
\* the names a directory entry can have, in the order os.scandir yields them
EnumOrder == <<"a.txt", "n.tmp", "b.txt">>

FileNames == {EnumOrder[i] : i \in 1..Len(EnumOrder)}

\* a subdirectory that is always present in the scanned directory
SubDirs == {"sub"}

\* the order in which os.scandir yields the entries of the directory
ScanOrder == <<"a.txt", "sub", "n.tmp", "b.txt">>

NameChars(f) ==
  CASE f = "a.txt" -> <<"a", ".", "t", "x", "t">>
    [] f = "b.txt" -> <<"b", ".", "t", "x", "t">>
    [] f = "n.tmp" -> <<"n", ".", "T", "M", "P">>
    [] f = "sub" -> <<"s", "u", "b">>
    [] OTHER -> <<>>

\* str.lower() on the characters the model uses
LowerChar(c) ==
  CASE c = "T" -> "t"
    [] c = "M" -> "m"
    [] c = "P" -> "p"
    [] c = "D" -> "d"
    [] OTHER -> c

Lower(s) == [i \in 1..Len(s) |-> LowerChar(s[i])]

\* str.startswith / str.endswith / the `in` test on strings
StartsWith(s, p) == Len(p) <= Len(s) /\ SubSeq(s, 1, Len(p)) = p

EndsWith(s, p) == Len(p) <= Len(s) /\ SubSeq(s, Len(s) - Len(p) + 1, Len(s)) = p

Contains(s, p) ==
  \E i \in 0..(Len(s) - Len(p)) : SubSeq(s, i + 1, i + Len(p)) = p

\* fnmatch.fnmatch for patterns of literals, '*' and '?'
RECURSIVE FnMatch(_, _)
FnMatch(s, p) ==
  IF p = <<>> THEN s = <<>>
  ELSE IF Head(p) = "*"
       THEN FnMatch(s, Tail(p)) \/ (s # <<>> /\ FnMatch(Tail(s), p))
       ELSE s # <<>> /\ (Head(p) = "?" \/ Head(p) = Head(s))
                     /\ FnMatch(Tail(s), Tail(p))

\* a pattern test that compares the suffix as written
PatternMatchesCaseSensitive(name, pattern) ==
  IF pattern = <<>> THEN FALSE
  ELSE IF StartsWith(pattern, <<"*", ".">>)
       THEN EndsWith(name, Tail(pattern))
       ELSE IF Contains(name, pattern) THEN TRUE
       ELSE IF (\E i \in 1..Len(pattern) : pattern[i] \in {"*", "?"})
            THEN FnMatch(name, pattern)
            ELSE FALSE

\* a pattern test that tries a pattern with a wildcard as a glob only
PatternMatchesWildcardByGlob(name, pattern) ==
  IF pattern = <<>> THEN FALSE
  ELSE IF StartsWith(pattern, <<"*", ".">>)
       THEN EndsWith(Lower(name), Lower(Tail(pattern)))
       ELSE IF (\E i \in 1..Len(pattern) : pattern[i] \in {"*", "?"})
            THEN FnMatch(name, pattern)
            ELSE Contains(name, pattern)

\* one pass of the loop over the exclusion patterns
PatternMatches(name, pattern) ==
  IF pattern = <<>> THEN FALSE
  ELSE IF StartsWith(pattern, <<"*", ".">>)
       THEN EndsWith(Lower(name), Lower(Tail(pattern)))
       ELSE IF Contains(name, pattern) THEN TRUE
       ELSE IF (\E i \in 1..Len(pattern) : pattern[i] \in {"*", "?"})
            THEN FnMatch(name, pattern)
            ELSE FALSE

\* the live checks of should_exclude, in the order of lines 641-648, and
\* "none" for no check
LiveCheckNames == {"none", "exists", "is_file", "access", "is_symlink"}

\* what the live checks of should_exclude see of a path, none of them
\* raising
FsAttr == [exists : BOOLEAN, is_file : BOOLEAN, readable : BOOLEAN,
           is_symlink : BOOLEAN, error : {"none"}]

\* the same of a path at which one of the checks, if it is made, raises
FsAttrRaising == [exists : BOOLEAN, is_file : BOOLEAN, readable : BOOLEAN,
                  is_symlink : BOOLEAN, error : LiveCheckNames \ {"none"}]

RegularFile == [exists |-> TRUE, is_file |-> TRUE, readable |-> TRUE,
                is_symlink |-> FALSE, error |-> "none"]

\* str(e) of the error a check raises
ErrorText == "EIO"

\* line 650: f"file access error: {e}"
AccessErrorReason(e) ==
  CASE e = "EIO" -> "file access error: EIO"
    [] OTHER -> "file access error: "

\* live checks that take a check that raises for one that passes
LiveChecksIgnoreErrors(config, attr) ==
  IF ~attr.exists THEN <<TRUE, "file does not exist">>
  ELSE IF ~attr.is_file THEN <<TRUE, "not a file">>
  ELSE IF ~attr.readable THEN <<TRUE, "file not readable">>
  ELSE IF config.exclude_symlinks /\ attr.is_symlink
  THEN <<TRUE, "symbolic link">>
  ELSE <<FALSE, None>>

\* lines 639-652: the checks of the path, each of which can raise, and the
\* except clause around them
LiveChecks(config, attr) ==
  IF attr.error = "exists" THEN <<TRUE, AccessErrorReason(ErrorText)>>
  ELSE IF ~attr.exists THEN <<TRUE, "file does not exist">>
  ELSE IF attr.error = "is_file" THEN <<TRUE, AccessErrorReason(ErrorText)>>
  ELSE IF ~attr.is_file THEN <<TRUE, "not a file">>
  ELSE IF attr.error = "access" THEN <<TRUE, AccessErrorReason(ErrorText)>>
  ELSE IF ~attr.readable THEN <<TRUE, "file not readable">>
  ELSE IF config.exclude_symlinks /\ attr.error = "is_symlink"
  THEN <<TRUE, AccessErrorReason(ErrorText)>>
  ELSE IF config.exclude_symlinks /\ attr.is_symlink
  THEN <<TRUE, "symbolic link">>
  ELSE <<FALSE, None>>

\* the part of Config that should_exclude reads
DefaultConfig ==
  [exclude_patterns |-> exclude_patterns,
   system_executable_extensions |-> system_executable_extensions,
   exclude_symlinks |-> exclude_symlinks]

\* a hidden-name test that knows only the dot
IsHiddenDotOnly(name) == StartsWith(name, <<".">>)

\* line 616: the name starts with '.' or '~'
IsHidden(name) == StartsWith(name, <<".">>) \/ StartsWith(name, <<"~">>)

\* an extension test by containment
ExtensionMatchesAnywhere(name, ext) == Contains(Lower(name), ext)

\* line 636: filename.lower().endswith(ext)
ExtensionMatches(name, ext) == EndsWith(Lower(name), ext)

\* a should_exclude that makes the live checks before the extension test
should_exclude_live_first(config, name, attr) ==
  IF name = <<>> THEN <<TRUE, "empty name">>
  ELSE IF IsHidden(name)
  THEN <<TRUE, "hidden file">>
  ELSE IF \E i \in 1..Len(config.exclude_patterns) :
            PatternMatches(name, config.exclude_patterns[i])
  THEN <<TRUE, "pattern match">>
  ELSE IF ~attr.exists THEN <<TRUE, "file does not exist">>
  ELSE IF ~attr.is_file THEN <<TRUE, "not a file">>
  ELSE IF ~attr.readable THEN <<TRUE, "file not readable">>
  ELSE IF config.exclude_symlinks /\ attr.is_symlink
  THEN <<TRUE, "symbolic link">>
  ELSE IF \E i \in 1..Len(config.system_executable_extensions) :
            ExtensionMatches(name, config.system_executable_extensions[i])
  THEN <<TRUE, "executable/system file">>
  ELSE <<FALSE, None>>

(* should_exclude(filename, filepath) under a configuration:               *)
(* <<excluded, reason>>                                                    *)
should_exclude_under(config, name, attr) ==
  IF name = <<>> THEN <<TRUE, "empty name">>
  ELSE IF IsHidden(name)
  THEN <<TRUE, "hidden file">>
  ELSE IF \E i \in 1..Len(config.exclude_patterns) :
            PatternMatches(name, config.exclude_patterns[i])
  THEN <<TRUE, "pattern match">>
  ELSE IF \E i \in 1..Len(config.system_executable_extensions) :
            ExtensionMatches(name, config.system_executable_extensions[i])
  THEN <<TRUE, "executable/system file">>
  ELSE LiveChecks(config, attr)

\* lines 687-692 of scan_qualified_files: the entry is appended to
\* qualified_files unless should_exclude says it is excluded
ScanKeeps(out) == ~out[1]

\* should_exclude of the engine the model runs
should_exclude(name, attr) == should_exclude_under(DefaultConfig, name, attr)

(***************************************************************************)
(* The history record and its JSON text                                    *)
(***************************************************************************)
\* datetime.now().isoformat() of the clock reading t
IsoFormat(t) == "T" \o ToString(t)

\* default_history["statistics"] of load_history
DefaultStatistics ==
  [total_opened |-> 0, total_failed |-> 0, last_reset |-> None,
   reset_count |-> 0, last_opened |-> None, last_opened_file |-> None,
   cleaned_opened |-> 0, cleaned_failed |-> 0, total_resets |-> 0]

\* default_history of load_history
DefaultHistory ==
  [opened_files |-> <<>>, failed_files |-> <<>>, file_signatures |-> <<>>,
   statistics |-> DefaultStatistics]

HistoryKeys == <<"opened_files", "failed_files", "file_signatures", "statistics">>

StatKeys == <<"total_opened", "total_failed", "last_reset", "reset_count",
              "last_opened", "last_opened_file", "cleaned_opened",
              "cleaned_failed", "total_resets">>

Range(s) == {s[i] : i \in 1..Len(s)}

\* the tokens of a JSON text
Tok(k, s, n) == [k |-> k, s |-> s, n |-> n]
TPunct(s) == Tok("punct", s, 0)
TStr(s) == Tok("str", s, 0)
TInt(n) == Tok("int", "", n)
TNull == Tok("null", "", 0)

\* json.dump of a list of strings
DumpList(l) == <<TPunct("[")>> \o [i \in 1..Len(l) |-> TStr(l[i])] \o <<TPunct("]")>>

\* json.dump of a value that is None or a string
DumpOptStr(v) == IF v = None THEN TNull ELSE TStr(v)

\* json.dump of the statistics dict, its keys in insertion order
DumpStats(s) ==
  <<TPunct("{"),
    TStr("total_opened"), TInt(s.total_opened),
    TStr("total_failed"), TInt(s.total_failed),
    TStr("last_reset"), DumpOptStr(s.last_reset),
    TStr("reset_count"), TInt(s.reset_count),
    TStr("last_opened"), DumpOptStr(s.last_opened),
    TStr("last_opened_file"), DumpOptStr(s.last_opened_file),
    TStr("cleaned_opened"), TInt(s.cleaned_opened),
    TStr("cleaned_failed"), TInt(s.cleaned_failed),
    TStr("total_resets"), TInt(s.total_resets),
    TPunct("}")>>

\* json.dump(history, f): the text save_history writes to the temp file
DumpHistory(h) ==
  <<TPunct("{"), TStr("opened_files")>> \o DumpList(h.opened_files)
  \o <<TStr("failed_files")>> \o DumpList(h.failed_files)
  \o <<TStr("file_signatures"), TPunct("{"), TPunct("}"), TStr("statistics")>>
  \o DumpStats(h.statistics) \o <<TPunct("}")>>

ParseFail == [ok |-> FALSE, ty |-> "error", v |-> None, tys |-> <<>>, i |-> 0]

\* json.load: the value starting at token i, its type, and the next position
RECURSIVE ParseValue(_, _), ParseArray(_, _, _), ParseObject(_, _, _, _)
ParseValue(t, i) ==
  IF i > Len(t) THEN ParseFail
  ELSE CASE t[i].k = "int" ->
              [ok |-> TRUE, ty |-> "int", v |-> t[i].n, tys |-> <<>>, i |-> i + 1]
         [] t[i].k = "str" ->
              [ok |-> TRUE, ty |-> "str", v |-> t[i].s, tys |-> <<>>, i |-> i + 1]
         [] t[i].k = "null" ->
              [ok |-> TRUE, ty |-> "null", v |-> None, tys |-> <<>>, i |-> i + 1]
         [] t[i] = TPunct("[") -> ParseArray(t, i + 1, <<>>)
         [] t[i] = TPunct("{") -> ParseObject(t, i + 1, <<>>, <<>>)
         [] OTHER -> ParseFail

ParseArray(t, i, acc) ==
  IF i > Len(t) THEN ParseFail
  ELSE IF t[i] = TPunct("]")
       THEN [ok |-> TRUE, ty |-> "list", v |-> acc, tys |-> <<>>, i |-> i + 1]
       ELSE LET r == ParseValue(t, i)
            IN  IF r.ok THEN ParseArray(t, r.i, Append(acc, r.v)) ELSE ParseFail

ParseObject(t, i, acc, tys) ==
  IF i > Len(t) THEN ParseFail
  ELSE IF t[i] = TPunct("}")
       THEN [ok |-> TRUE, ty |-> "dict", v |-> acc, tys |-> tys, i |-> i + 1]
       ELSE IF t[i].k # "str" THEN ParseFail
       ELSE LET r == ParseValue(t, i + 1)
            IN  IF r.ok
                THEN ParseObject(t, r.i, (t[i].s :> r.v) @@ acc,
                                 (t[i].s :> r.ty) @@ tys)
                ELSE ParseFail

\* json.load(f) of a whole text: one value and nothing after it
JsonLoad(t) ==
  LET r == ParseValue(t, 1)
  IN  IF r.ok /\ r.i = Len(t) + 1 THEN r ELSE ParseFail

\* the durable history file does not exist
Absent == <<Tok("absent", "", 0)>>

\* a load whose repair replaces the statistics by the defaults
LoadRecordResetsStatistics(content) ==
  IF content = Absent THEN DefaultHistory
  ELSE LET r == JsonLoad(content)
       IN  IF ~r.ok \/ r.ty # "dict" THEN DefaultHistory
           ELSE [k \in DOMAIN r.v \cup Range(HistoryKeys) |->
                   IF k = "statistics" \/ k \notin DOMAIN r.v
                   THEN DefaultHistory[k] ELSE r.v[k]]

\* a string that holds every statistics key as a substring
AllStatKeysText == "every statistics key"

\* `key in loaded["statistics"]` for a value of JSON type ty: a key of a
\* dict, an element of a list, a substring of a string (for null or a
\* number the test raises TypeError, which the loop below takes as a miss)
KeyIn(key, v, ty) ==
  CASE ty = "dict" -> key \in DOMAIN v
    [] ty = "list" -> key \in Range(v)
    [] ty = "str" -> v = key \/ v = AllStatKeysText
    [] OTHER -> FALSE

\* the loop of lines 740-742 over a statistics value that is no dict: it
\* runs through when no key is found missing, and raises when the test
\* raises or a missing key is to be assigned
StatisticsLoopPasses(v, ty) ==
  /\ ty \in {"list", "str"}
  /\ \A k \in Range(StatKeys) : KeyIn(k, v, ty) = TRUE

(* load_history, given the content of the history file: the default record *)
(* when the file is absent, unreadable as JSON or not an object, or when    *)
(* the repair raises; otherwise the loaded object with its missing keys     *)
(* filled in.  statsTy is the type of the statistics value of the result.   *)
LoadResult(content) ==
  LET default == [record |-> DefaultHistory, statsTy |-> "dict"] IN
  IF content = Absent THEN default
  ELSE LET r == JsonLoad(content)
       IN  IF ~r.ok \/ r.ty # "dict" THEN default
           ELSE LET top == [k \in DOMAIN r.v \cup Range(HistoryKeys) |->
                              IF k \in DOMAIN r.v THEN r.v[k]
                              ELSE DefaultHistory[k]]
                IN  IF "statistics" \in DOMAIN r.v /\ r.tys["statistics"] # "dict"
                    THEN IF StatisticsLoopPasses(r.v["statistics"],
                                                 r.tys["statistics"])
                         THEN [record |-> top, statsTy |-> r.tys["statistics"]]
                         ELSE default
                    ELSE [record |->
                            [top EXCEPT !["statistics"] =
                               [k \in DOMAIN top["statistics"] \cup Range(StatKeys) |->
                                  IF k \in DOMAIN top["statistics"]
                                  THEN top["statistics"][k]
                                  ELSE DefaultStatistics[k]]],
                          statsTy |-> "dict"]

\* the record load_history returns
LoadRecord(content) == LoadResult(content).record

(***************************************************************************)
(* Pure parts of get_available_files, reset_history_if_needed and run      *)
(***************************************************************************)
\* list.remove(x): drops the first occurrence
RemoveFirst(l, x) ==
  IF x \notin Range(l) THEN l
  ELSE LET k == CHOOSE i \in 1..Len(l) : l[i] = x /\ \A j \in 1..(i - 1) : l[j] # x
       IN  SubSeq(l, 1, k - 1) \o SubSeq(l, k + 1, Len(l))

AppendIfAbsent(l, x) == IF x \in Range(l) THEN l ELSE Append(l, x)

\* a filter that forgets the failed files
AvailableIgnoringFailed(qualified, h) ==
  SelectSeq(qualified, LAMBDA f : f \notin Range(h.opened_files))

\* the loop of get_available_files over the scan result
RECURSIVE AvailableOf(_, _)
AvailableOf(qualified, h) ==
  IF qualified = <<>> THEN <<>>
  ELSE IF Head(qualified) \in Range(h.opened_files)
          \/ Head(qualified) \in Range(h.failed_files)
       THEN AvailableOf(Tail(qualified), h)
       ELSE <<Head(qualified)>> \o AvailableOf(Tail(qualified), h)

\* an update that appends the file to opened_files whatever the outcome
RecordOutcomeAlwaysOpened(h, sel, ok, t) ==
  [h EXCEPT !.opened_files = AppendIfAbsent(h.opened_files, sel),
            !.failed_files = IF ok THEN RemoveFirst(h.failed_files, sel)
                             ELSE AppendIfAbsent(h.failed_files, sel)]

\* an update that does not record a failed open
RecordOutcomeDropsFailure(h, sel, ok, t) ==
  IF ok THEN [h EXCEPT !.opened_files = AppendIfAbsent(h.opened_files, sel)]
  ELSE h

\* an update that names the file as last opened whatever the outcome
RecordOutcomeNamesFailed(h, sel, ok, t) ==
  LET opened == IF ok THEN AppendIfAbsent(h.opened_files, sel)
                ELSE RemoveFirst(h.opened_files, sel)
      failed == IF ok THEN RemoveFirst(h.failed_files, sel)
                ELSE AppendIfAbsent(h.failed_files, sel)
      st     == h.statistics
      stats  == [st EXCEPT
                   !.total_opened = IF ok THEN @ + 1 ELSE @,
                   !.total_failed = IF ok THEN @ ELSE @ + 1,
                   !.last_opened = IsoFormat(t),
                   !.last_opened_file = sel]
  IN  [h EXCEPT !.opened_files = opened, !.failed_files = failed,
                !.statistics = stats]

\* run: the update of the history after the open attempt, at clock reading t
RecordOutcome(h, sel, ok, t) ==
  LET opened == IF ok THEN AppendIfAbsent(h.opened_files, sel)
                ELSE RemoveFirst(h.opened_files, sel)
      failed == IF ok THEN RemoveFirst(h.failed_files, sel)
                ELSE AppendIfAbsent(h.failed_files, sel)
      st     == h.statistics
      stats  == [st EXCEPT
                   !.total_opened = IF ok THEN @ + 1 ELSE @,
                   !.total_failed = IF ok THEN @ ELSE @ + 1,
                   !.last_opened = IsoFormat(t),
                   !.last_opened_file = IF ok THEN sel ELSE @]
  IN  [h EXCEPT !.opened_files = opened, !.failed_files = failed,
                !.statistics = stats]

\* a reset that keeps the opened files
ResetRecordKeepsOpened(h, t) ==
  [h EXCEPT !.failed_files = <<>>,
            !.statistics = [h.statistics EXCEPT !.reset_count = @ + 1,
                                                !.total_resets = @ + 1]]

\* reset_history_if_needed: new_history, at clock reading t
ResetRecord(h, t) ==
  [opened_files |-> <<>>, failed_files |-> <<>>, file_signatures |-> <<>>,
   statistics |-> [h.statistics EXCEPT !.reset_count = @ + 1,
                                       !.last_reset = IsoFormat(t),
                                       !.total_resets = @ + 1]]

(***************************************************************************)
(* State                                                                   *)
(***************************************************************************)
Threads == {"t1", "t2"}

VARIABLES
  \* the disk and the clock
  dirFiles,        \* names of the regular files in script_dir
  dirOk,           \* script_dir exists and is readable
  histFile,        \* text of the history file, or Absent
  tmpDisk,         \* temp files on disk: name -> text
  now,             \* time.time(), in whole seconds
  pid,             \* os.getpid() of the running process
  \* the engine (one RandomFileOpener instance)
  history_lock,    \* "free" or the thread inside `with self.history_lock`
  temp_files,      \* self._temp_files
  qcache,          \* self._qualified_files_cache: [set, files]
  cache_timestamp, \* self._cache_timestamp
  scanned,         \* self.total_files_scanned
  excluded,        \* self.total_files_excluded
  th,              \* per caller: position in run() and its local variables
  \* bookkeeping of the run
  runs,            \* run() calls started so far
  events,          \* events of the environment so far
  g                \* observations the properties are stated over

engineVars == <<dirFiles, dirOk, histFile, tmpDisk, now, pid, history_lock,
                temp_files, qcache, cache_timestamp, scanned, excluded, th,
                runs, events, g>>

NoCache == [set |-> FALSE, files |-> <<>>]

\* what a call of scan_qualified_files found: its argument, the cache, its
\* time stamp and the counters at the call, the directory when it was listed
NoScan ==
  [force |-> FALSE, cached |-> NoCache, stamp |-> 0, time |-> 0,
   scanned |-> 0, excluded |-> 0, dirOk |-> TRUE, files |-> {}]

\* the local variables of run() and of the calls it makes
InitLocals ==
  [pc |-> "idle", scanRet |-> "avail", saveRet |-> "stats", force |-> FALSE,
   history |-> DefaultHistory, qualified |-> <<>>, scanOk |-> TRUE,
   error_msg |-> None, available |-> <<>>, selected |-> None,
   success |-> FALSE, current_time |-> 0, temp_file |-> <<>>,
   saveArg |-> DefaultHistory, didReset |-> FALSE,
   \* observations: the selected file was selected before, since the last
   \* reset (again), by a run whose save reached the disk (againKept)
   again |-> FALSE, againKept |-> FALSE,
   \* observations of the last call of scan_qualified_files: what it found
   \* when it was called (sc) and how it came back (ret)
   sc |-> NoScan, ret |-> "none",
   \* observation: the record reset_history_if_needed was called with
   given |-> DefaultHistory,
   \* observation: an exception reached the handlers of run()
   raised |-> FALSE,
   \* observation: the record run() held when the opener reported
   held |-> DefaultHistory,
   \* observations of the run: the history file when it started, its calls
   \* of save_history and of the opener, its selections, and whether
   \* get_available_files reported a failed scan
   hist0 |-> Absent, saves |-> 0, opens |-> 0, picks |-> 0,
   scanFailed |-> FALSE,
   \* observation: calls of save_history in which the write or the rename
   \* raised an error
   fails |-> 0]

InitObs ==
  [picked |-> {},      \* files selected since the last reset
   kept |-> {},        \* those of them whose run's save reached the disk
   npicks |-> 0,       \* selections made by this process (while quiet)
   quiet |-> TRUE,     \* no open failed, no save failed, directory unchanged
   resets |-> 0,       \* resets made by this process
   saved |-> FALSE,    \* save_history has been called
   lastSaved |-> DefaultHistory,  \* the record of the latest save_history call
   lastSaveOk |-> FALSE,          \* its temp file replaced the history file
   leftover |-> {},    \* temp files written and not yet renamed at a kill
   swept |-> FALSE,    \* a cleanup sweep has completed since the kill
   afterRaise |-> FALSE]  \* the run that returned last had caught an exception

\* __init__ / _init_basic_components: the engine of a fresh process
EngineInit ==
  /\ history_lock = "free"
  /\ temp_files = {}
  /\ qcache = NoCache
  /\ cache_timestamp = 0
  /\ scanned = 0
  /\ excluded = 0
  /\ th = [t \in Threads |-> InitLocals]
  /\ runs = 0

DiskInit ==
  /\ dirFiles \in {FileNames, {"a.txt", "n.tmp"}, {"n.tmp"}}
  /\ dirOk = TRUE
  /\ histFile = Absent
  /\ tmpDisk = <<>>
  /\ now = 0
  /\ pid = 0
  /\ events = 0
  /\ g = InitObs

\* an upset ends the quiet: what is counted only while quiet is dropped
Upset(obs) == [obs EXCEPT !.quiet = FALSE, !.npicks = 0, !.resets = 0]

Set(t, locals) == th' = [th EXCEPT ![t] = locals]

At(t, where) == th[t].pc = where

(***************************************************************************)
(* SimpleLRUCache, used by two callers                                     *)
(***************************************************************************)
LruKeys == {"k1", "k2", "k3"}

LruValues == {"v1", "v2"}

VARIABLES
  cache,      \* self._cache: the <<key, value>> pairs, oldest first
  hits,       \* self._hits
  misses,     \* self._misses
  lruLock,    \* self._lock: "free" or the caller holding it
  lp,         \* per caller: position inside put, its key and value
  ops,        \* cache operations started
  obs         \* observations the cache properties are stated over

lruVars == <<cache, hits, misses, lruLock, lp, ops, obs>>

VARIABLES
  built,      \* the SimpleLRUCache(max_size) call: its argument and outcome
  \* an AtomicCounter used by two callers
  cvalue,     \* self._value
  ctrLock,    \* self._lock: "free" or the caller holding it
  cp,         \* per caller: its call in progress
  cobs,       \* observations the counter properties are stated over
  \* a FileDescriptorTracker
  fd,         \* _count, _max_count, _opened_count, _closed_count
  fobs,       \* observations the tracker properties are stated over
  calls,      \* counter and tracker calls made
  ex,         \* a should_exclude call: its configuration, arguments, result
  \* get_file_hash and the files it is called on
  hfiles,     \* per path: whether it exists, its size, mtime and content
  hobs,       \* observations the hash properties are stated over
  ld,         \* a load_history call: the history file it finds, its result
  rt,         \* an open_file_with_retry call: its attempts, waits and result
  eng,        \* a RandomFileOpener(config) call: its configuration and outcome
  \* the locks of one engine and the callers that take them
  lockOwner,  \* per lock: the caller holding it (or "free") and how often
  lprog,      \* per caller: the lock steps its call has still to make
  lheld,      \* per caller: the locks it holds, in the order it took them
  lops        \* calls started

ctrVars == <<cvalue, ctrLock, cp, cobs>>

fdVars == <<fd, fobs>>

exVars == <<ex>>

hashVars == <<hfiles, hobs>>

loadVars == <<ld>>

retryVars == <<rt>>

ctorVars == <<eng>>

lockVars == <<lockOwner, lprog, lheld, lops>>

moreVars == <<hashVars, loadVars, retryVars, ctorVars, lockVars>>

partVars == <<built, ctrVars, fdVars, calls, exVars, moreVars>>

\* no should_exclude call is being looked at
NoExclude == [config |-> DefaultConfig, name |-> <<>>, attr |-> RegularFile,
              done |-> FALSE, out |-> <<FALSE, None>>, kept |-> FALSE]

\* no constructor has been called
NotBuilt ==
  [state |-> "none", arg |-> 0, max_size |-> None, error |-> None,
   failures |-> 0]

\* a constructor that lets a capacity of 0 through
NewCacheAcceptsZero(b, n) ==
  IF n < 0
  THEN [b EXCEPT !.state = "failed", !.arg = n, !.max_size = None,
                 !.error = "ValueError", !.failures = @ + 1]
  ELSE [b EXCEPT !.state = "made", !.arg = n, !.max_size = n,
                 !.error = None]

\* SimpleLRUCache.__init__(max_size), lines 188-190: ValueError and no
\* object for max_size <= 0, else an object with self.max_size = max_size
NewCache(b, n) ==
  IF n <= 0
  THEN [b EXCEPT !.state = "failed", !.arg = n, !.max_size = None,
                 !.error = "ValueError", !.failures = @ + 1]
  ELSE [b EXCEPT !.state = "made", !.arg = n, !.max_size = n,
                 !.error = None]

\* a cache object exists
Made == built.state = "made"

Keys(c) == {c[i][1] : i \in 1..Len(c)}

IndexOf(c, k) == CHOOSE i \in 1..Len(c) : c[i][1] = k

ValueOf(c, k) == c[IndexOf(c, k)][2]

Without(c, k) == SelectSeq(c, LAMBDA e : e[1] # k)

\* a move_to_end that leaves the order alone
MoveToEndNoMove(c, k) == c

\* OrderedDict.move_to_end(key)
MoveToEnd(c, k) == Without(c, k) \o <<c[IndexOf(c, k)]>>

\* OrderedDict.popitem(last=False)
PopOldest(c) == Tail(c)

\* self._cache[key] = value: in place for a present key, at the end otherwise
SetItem(c, k, v) ==
  IF k \in Keys(c) THEN [c EXCEPT ![IndexOf(c, k)] = <<k, v>>]
  ELSE Append(c, <<k, v>>)

\* put, line 211: the cache is at capacity
AtCapacity(c) == Len(c) >= built.max_size

\* AtomicCounter.increment(amount)
CounterIncrement(value, amount) == value + amount

\* a set that keeps the old value
CounterSetKeeps(value, new) == value

\* AtomicCounter.set(value)
CounterSet(value, new) == new

\* a cache operation that does not wait for the lock
CanLockAlways(t) == TRUE

\* `with self._lock`: the lock can be taken
CanLock(t) == lruLock = "free"

LruIdle == [pc |-> "idle", key |-> None, val |-> None]

\* what the last completed operation did
NoOp == [op |-> "none", key |-> None, val |-> None, ret |-> None,
         present |-> FALSE, full |-> FALSE, before |-> {}, oldest |-> None,
         counted |-> 0]

InitLruObs ==
  [stamp |-> [k \in LruKeys |-> 0],  \* when each key was last put or found
   gets_present |-> 0,   \* get calls on present keys since the last clear
   gets_absent |-> 0,    \* get calls on absent keys since the last clear
   last |-> NoOp]

\* SimpleLRUCache.__init__
LruInit ==
  /\ cache = <<>>
  /\ hits = 0
  /\ misses = 0
  /\ lruLock = "free"
  /\ lp = [t \in Threads |-> LruIdle]
  /\ ops = 0
  /\ obs = InitLruObs

\* the arguments the constructor is tried with
CtorArgs == -1..max_size

\* SimpleLRUCache(n) is called: a failed call leaves no object, and the
\* caller may call again
LruConstruct(n) ==
  /\ ~Made
  /\ ops < MaxOps
  /\ ops' = ops + 1
  /\ built' = NewCache(built, n)
  /\ UNCHANGED <<cache, hits, misses, lruLock, lp, obs>>
  /\ UNCHANGED <<engineVars, ctrVars, fdVars, calls, exVars, moreVars>>

\* the present key whose last put or successful get is the oldest
OldestKey(c, stamp) ==
  IF c = <<>> THEN None
  ELSE CHOOSE k \in Keys(c) : \A j \in Keys(c) : stamp[k] <= stamp[j]

\* SimpleLRUCache.get
LruGet(t, k) ==
  /\ Made
  /\ lp[t].pc = "idle"
  /\ ops < MaxOps
  /\ CanLock(t)
  /\ ops' = ops + 1
  /\ IF k \in Keys(cache)
     THEN /\ cache' = MoveToEnd(cache, k)
          /\ hits' = CounterIncrement(hits, 1)
          /\ misses' = misses
          /\ obs' = [obs EXCEPT !.stamp[k] = ops + 1, !.gets_present = @ + 1,
                                !.last = [NoOp EXCEPT !.op = "get", !.key = k,
                                            !.ret = ValueOf(cache, k),
                                            !.present = TRUE,
                                            !.before = Keys(cache)]]
     ELSE /\ cache' = cache
          /\ hits' = hits
          /\ misses' = CounterIncrement(misses, 1)
          /\ obs' = [obs EXCEPT !.gets_absent = @ + 1,
                                !.last = [NoOp EXCEPT !.op = "get", !.key = k,
                                            !.before = Keys(cache)]]
  /\ UNCHANGED <<lruLock, lp>>
  /\ UNCHANGED <<engineVars, partVars>>

\* SimpleLRUCache.put, lines 208-212: take the lock, then refresh a present
\* key or make room for a new one
LruPutCheck(t, k, v) ==
  /\ Made
  /\ lp[t].pc = "idle"
  /\ ops < MaxOps
  /\ CanLock(t)
  /\ ops' = ops + 1
  /\ lruLock' = t
  /\ lp' = [lp EXCEPT ![t] = [pc |-> "put_store", key |-> k, val |-> v]]
  /\ cache' = IF k \in Keys(cache) THEN MoveToEnd(cache, k)
              ELSE IF AtCapacity(cache) THEN PopOldest(cache)
              ELSE cache
  /\ obs' = [obs EXCEPT !.last = [NoOp EXCEPT !.op = "put_check", !.key = k,
                                    !.val = v,
                                    !.present = k \in Keys(cache),
                                    !.full = Len(cache) >= max_size,
                                    !.before = Keys(cache),
                                    !.oldest = OldestKey(cache, obs.stamp)]]
  /\ UNCHANGED <<hits, misses>>
  /\ UNCHANGED <<engineVars, partVars>>

\* SimpleLRUCache.put, line 213: store the value and leave the lock
LruPutStore(t) ==
  /\ lp[t].pc = "put_store"
  /\ cache' = SetItem(cache, lp[t].key, lp[t].val)
  /\ lruLock' = IF lruLock = t THEN "free" ELSE lruLock
  /\ lp' = [lp EXCEPT ![t] = LruIdle]
  /\ obs' = [obs EXCEPT !.stamp[lp[t].key] = ops,
                        !.last = [@ EXCEPT !.op = "put"]]
  /\ UNCHANGED <<hits, misses, ops>>
  /\ UNCHANGED <<engineVars, partVars>>

\* SimpleLRUCache.remove
LruRemove(t, k) ==
  /\ Made
  /\ lp[t].pc = "idle"
  /\ ops < MaxOps
  /\ CanLock(t)
  /\ ops' = ops + 1
  /\ cache' = Without(cache, k)
  /\ obs' = [obs EXCEPT !.last = [NoOp EXCEPT !.op = "remove", !.key = k,
                                    !.ret = IF k \in Keys(cache) THEN "True"
                                            ELSE "False",
                                    !.present = k \in Keys(cache),
                                    !.before = Keys(cache)]]
  /\ UNCHANGED <<hits, misses, lruLock, lp>>
  /\ UNCHANGED <<engineVars, partVars>>

\* SimpleLRUCache.clear
LruClear(t) ==
  /\ Made
  /\ lp[t].pc = "idle"
  /\ ops < MaxOps
  /\ CanLock(t)
  /\ ops' = ops + 1
  /\ cache' = <<>>
  /\ hits' = CounterSet(hits, 0)
  /\ misses' = CounterSet(misses, 0)
  /\ obs' = [obs EXCEPT !.gets_present = 0, !.gets_absent = 0,
                        !.last = [NoOp EXCEPT !.op = "clear",
                                    !.before = Keys(cache),
                                    !.counted = hits + misses]]
  /\ UNCHANGED <<lruLock, lp>>
  /\ UNCHANGED <<engineVars, partVars>>

(***************************************************************************)
(* AtomicCounter, used by two callers                                      *)
(***************************************************************************)
CtrInitial == {0, 3}

CtrAmounts == {1, 2}

CtrOps == {"increment", "decrement", "get", "set", "reset"}

CtrIdle == [pc |-> "idle", op |-> None, amount |-> 0, read |-> 0]

\* what the last completed call did, and the call completed before it
NoCall == [op |-> None, caller |-> None, amount |-> 0, before |-> 0,
           ret |-> None, prevOp |-> None, prevRet |-> None]

InitCtrObs ==
  [base |-> 0,      \* the initial value, or the value of the last set / reset
   incs |-> 0,      \* sum of the increments called since
   decs |-> 0,      \* sum of the decrements called since
   last |-> NoCall]

\* a decrement that adds
CounterDecrementAdds(v, amount) == v + amount

\* AtomicCounter.decrement(amount)
CounterDecrement(v, amount) == v - amount

\* a counter call that does not wait for the lock
CtrCanLockAlways(t) == TRUE

\* `with self._lock` of AtomicCounter: the lock can be taken
CtrCanLock(t) == ctrLock = "free"

\* a caller enters a method of the counter: it takes the lock and reads
\* self._value
CtrCall(t, op, a) ==
  /\ cp[t].pc = "idle"
  /\ calls < MaxOps
  /\ CtrCanLock(t)
  /\ calls' = calls + 1
  /\ ctrLock' = t
  /\ cp' = [cp EXCEPT ![t] = [pc |-> "in", op |-> op, amount |-> a,
                              read |-> cvalue]]
  /\ cobs' = [cobs EXCEPT
               !.incs = IF op = "increment" THEN @ + a ELSE @,
               !.decs = IF op = "decrement" THEN @ + a ELSE @]
  /\ cvalue' = cvalue
  /\ UNCHANGED <<engineVars, lruVars, built, fdVars, exVars, moreVars>>

\* the method writes self._value, leaves the lock and returns
CtrReturn(t) ==
  /\ cp[t].pc = "in"
  /\ LET c == cp[t]
         new == CASE c.op = "increment" -> CounterIncrement(c.read, c.amount)
                  [] c.op = "decrement" -> CounterDecrement(c.read, c.amount)
                  [] c.op = "set" -> CounterSet(c.read, c.amount)
                  [] c.op = "reset" -> 0
                  [] OTHER -> cvalue
         ret == CASE c.op \in {"increment", "decrement"} -> new
                  [] c.op = "get" -> c.read
                  [] c.op = "reset" -> c.read
                  [] OTHER -> None
     IN  /\ cvalue' = new
         /\ cobs' = [cobs EXCEPT
                      !.base = IF c.op \in {"set", "reset"} THEN new ELSE @,
                      !.incs = IF c.op \in {"set", "reset"} THEN 0 ELSE @,
                      !.decs = IF c.op \in {"set", "reset"} THEN 0 ELSE @,
                      !.last = [op |-> c.op, caller |-> t,
                                amount |-> c.amount, before |-> c.read,
                                ret |-> ret, prevOp |-> cobs.last.op,
                                prevRet |-> cobs.last.ret]]
  /\ ctrLock' = IF ctrLock = t THEN "free" ELSE ctrLock
  /\ cp' = [cp EXCEPT ![t] = CtrIdle]
  /\ UNCHANGED calls
  /\ UNCHANGED <<engineVars, lruVars, built, fdVars, exVars, moreVars>>

(***************************************************************************)
(* FileDescriptorTracker                                                   *)
(***************************************************************************)
NewTracker == [count |-> 0, max_count |-> 0, opened |-> 0, closed |-> 0]

NoStats == [current |-> 0, max |-> 0, opened |-> 0, closed |-> 0,
            leaked |-> 0]

InitFdObs ==
  [opens |-> 0,      \* track_open calls
   closes |-> 0,     \* track_close calls
   peak |-> 0,       \* the highest value _count has had
   last |-> None,    \* the last call
   before |-> 0,     \* _count before the last call
   stats |-> NoStats]   \* what the last get_stats returned

Max(a, b) == IF a >= b THEN a ELSE b

\* a track_close that decrements whatever the count is
CloseCountUnfloored(count) == count - 1

\* track_close, lines 277-278
CloseCount(count) == IF count > 0 THEN count - 1 ELSE count

\* the tracker after track_open, lines 268-272
FdOpened(f) ==
  [f EXCEPT !.count = @ + 1,
            !.opened = CounterIncrement(@, 1),
            !.max_count = IF f.count + 1 > @ THEN f.count + 1 ELSE @]

\* the tracker after track_close, lines 276-279
FdClosed(f) ==
  [f EXCEPT !.count = CloseCount(@), !.closed = CounterIncrement(@, 1)]

\* FileDescriptorTracker.track_open
TrackOpen ==
  /\ calls < MaxOps
  /\ calls' = calls + 1
  /\ fd' = FdOpened(fd)
  /\ fobs' = [fobs EXCEPT !.opens = @ + 1, !.last = "open",
                          !.before = fd.count,
                          !.peak = Max(@, fd.count + 1)]
  /\ UNCHANGED <<engineVars, lruVars, built, ctrVars, exVars, moreVars>>

\* FileDescriptorTracker.track_close
TrackClose ==
  /\ calls < MaxOps
  /\ calls' = calls + 1
  /\ fd' = FdClosed(fd)
  /\ fobs' = [fobs EXCEPT !.closes = @ + 1, !.last = "close",
                          !.before = fd.count]
  /\ UNCHANGED <<engineVars, lruVars, built, ctrVars, exVars, moreVars>>

\* FileDescriptorTracker.get_stats
GetStats ==
  /\ fobs.last # "stats"
  /\ fd' = fd
  /\ fobs' = [fobs EXCEPT
               !.last = "stats", !.before = fd.count,
               !.stats = [current |-> fd.count, max |-> fd.max_count,
                          opened |-> fd.opened, closed |-> fd.closed,
                          leaked |-> Max(0, fd.opened - fd.closed)]]
  /\ UNCHANGED calls
  /\ UNCHANGED <<engineVars, lruVars, built, ctrVars, exVars, moreVars>>

(***************************************************************************)
(* get_file_hash                                                           *)
(***************************************************************************)
\* the paths get_file_hash is called on
HashPaths == {"p1", "p2"}

\* what a file may hold
Contents == {"x", "y"}

\* Config.max_file_size_for_full_hash, in the size unit of the instance
max_file_size_for_full_hash == 1

\* the modification times a file may have
MTimes == 0..MaxMtime

\* the sizes a file may have: up to the threshold and above it
FileSizes == {max_file_size_for_full_hash, max_file_size_for_full_hash + 1}

\* path.exists() and path.stat() of a file, and what reading it yields
NewFile == [exists |-> TRUE, size |-> max_file_size_for_full_hash,
            mtime |-> 0, content |-> "x"]

\* hashlib.sha256 over all chunks of the file: decided by the content alone
FullDigest(content) ==
  [x |-> "sha256 of x", y |-> "sha256 of y"][content]

\* hashlib.sha256 over the head, the samples and the tail of a large file
SamplingDigest(content) ==
  [x |-> "sha256 of the samples of x", y |-> "sha256 of the samples of y"][content]

HashKeyWithoutMtime(path, file) == <<path, file.size, 0>>

\* cache_key = f"{str_path}_{stat.st_size}_{stat.st_mtime}"
HashKey(path, file) == <<path, file.size, file.mtime>>

\* `if cached_result:` of a value SimpleLRUCache.get returned
Truthy(v) == v \notin {None, ""}

\* SimpleLRUCache.get as one call: the cache, the counters and the value
CacheGet(c, h, m, k) ==
  IF k \in Keys(c)
  THEN [cache |-> MoveToEnd(c, k), hits |-> CounterIncrement(h, 1),
        misses |-> m, value |-> ValueOf(c, k)]
  ELSE [cache |-> c, hits |-> h, misses |-> CounterIncrement(m, 1),
        value |-> None]

CachePutNothing(c, k, v) == c

\* SimpleLRUCache.put as one call
CachePut(c, k, v) ==
  SetItem(IF k \in Keys(c) THEN MoveToEnd(c, k)
          ELSE IF AtCapacity(c) THEN PopOldest(c)
          ELSE c, k, v)

\* where a call of get_file_hash may meet an I/O error
HashFaults == {"none", "stat", "open", "read"}

HashOutcomeRaising(file, cached, fault) ==
  IF ~file.exists THEN [ret |-> "", opened |-> FALSE, store |-> FALSE]
  ELSE IF fault = "stat" THEN [ret |-> "", opened |-> FALSE, store |-> FALSE]
  ELSE IF Truthy(cached)
       THEN [ret |-> cached, opened |-> FALSE, store |-> FALSE]
  ELSE IF fault = "open"
       THEN [ret |-> "raised", opened |-> FALSE, store |-> FALSE]
  ELSE IF fault = "read"
       THEN [ret |-> "raised", opened |-> TRUE, store |-> FALSE]
  ELSE [ret |-> IF file.size <= max_file_size_for_full_hash
                THEN FullDigest(file.content)
                ELSE SamplingDigest(file.content),
        opened |-> TRUE, store |-> TRUE]

\* what one call of get_file_hash does after its cache lookup: the value it
\* returns, whether it opened the file and whether it stores the value in
\* the cache.  An error of the full read is caught at lines 568-570; an error
\* of the sampling read is caught at lines 604-606 and its "" is stored
HashOutcome(file, cached, fault) ==
  IF ~file.exists THEN [ret |-> "", opened |-> FALSE, store |-> FALSE]
  ELSE IF fault = "stat" THEN [ret |-> "", opened |-> FALSE, store |-> FALSE]
  ELSE IF Truthy(cached)
       THEN [ret |-> cached, opened |-> FALSE, store |-> FALSE]
  ELSE IF fault = "open"
       THEN [ret |-> "", opened |-> FALSE,
             store |-> file.size > max_file_size_for_full_hash]
  ELSE IF fault = "read"
       THEN [ret |-> "", opened |-> TRUE,
             store |-> file.size > max_file_size_for_full_hash]
  ELSE [ret |-> IF file.size <= max_file_size_for_full_hash
                THEN FullDigest(file.content)
                ELSE SamplingDigest(file.content),
        opened |-> TRUE, store |-> TRUE]

\* no call of get_file_hash has been made
NoHashCall ==
  [made |-> FALSE, path |-> None, file |-> NewFile, fault |-> "none",
   ret |-> "", opened |-> FALSE, looked |-> FALSE, keys |-> {},
   served |-> FALSE,
   hits |-> 0, hitsAfter |-> 0, fd |-> NewTracker, fdAfter |-> NewTracker]

InitHashObs ==
  [n |-> 0,                \* calls and changes of files so far
   last |-> NoHashCall,    \* the last call of get_file_hash
   prev |-> NoHashCall]    \* the call before it

HashInit ==
  /\ hfiles = [p \in HashPaths |-> NewFile]
  /\ hobs = InitHashObs

\* get_file_hash(path), lines 527-570, with _get_sampling_hash, lines 572-606
GetFileHash(p, fault) ==
  LET file == hfiles[p]
      key == HashKey(p, file)
      looks == file.exists /\ fault # "stat"
      got == CacheGet(cache, hits, misses, key)
      out == HashOutcome(file, IF looks THEN got.value ELSE None, fault)
      track == IF out.opened THEN FdClosed(FdOpened(fd)) ELSE fd
  IN
  /\ hobs.n < MaxHashOps
  /\ fault = "none" \/ file.exists
  /\ cache' = IF ~looks THEN cache
              ELSE IF out.store THEN CachePut(got.cache, key, out.ret)
              ELSE got.cache
  /\ hits' = IF looks THEN got.hits ELSE hits
  /\ misses' = IF looks THEN got.misses ELSE misses
  /\ fd' = track
  /\ hobs' = [n |-> hobs.n + 1,
              prev |-> hobs.last,
              last |-> [made |-> TRUE, path |-> p, file |-> file,
                        fault |-> fault, ret |-> out.ret,
                        opened |-> out.opened, looked |-> looks,
                        keys |-> Keys(cache),
                        served |-> looks /\ Truthy(got.value),
                        hits |-> hits, hitsAfter |-> hits',
                        fd |-> fd, fdAfter |-> track]]
  /\ UNCHANGED <<hfiles, fobs, lruLock, lp, ops, obs>>
  /\ UNCHANGED <<engineVars, built, ctrVars, calls, exVars, loadVars,
                 retryVars, ctorVars, lockVars>>

\* os.utime: the file is given another modification time, nothing else
\* changes
Touch(p, m) ==
  /\ hobs.n < MaxHashOps
  /\ hfiles[p].exists
  /\ m \in MTimes \ {hfiles[p].mtime}
  /\ hfiles' = [hfiles EXCEPT ![p].mtime = m]
  /\ hobs' = [hobs EXCEPT !.n = @ + 1]
  /\ UNCHANGED <<engineVars, lruVars, built, ctrVars, fdVars, calls, exVars,
                 loadVars, retryVars, ctorVars, lockVars>>

\* the file is written or created: new content and size; its modification
\* time is the one it had (a write within the resolution of the time stamp,
\* or one whose time stamp was restored)
Rewrite(p, content, size) ==
  /\ hobs.n < MaxHashOps
  /\ <<TRUE, content, size>>
       # <<hfiles[p].exists, hfiles[p].content, hfiles[p].size>>
  /\ hfiles' = [hfiles EXCEPT ![p] = [exists |-> TRUE, size |-> size,
                                      mtime |-> @.mtime,
                                      content |-> content]]
  /\ hobs' = [hobs EXCEPT !.n = @ + 1]
  /\ UNCHANGED <<engineVars, lruVars, built, ctrVars, fdVars, calls, exVars,
                 loadVars, retryVars, ctorVars, lockVars>>

\* the file is deleted
Remove(p) ==
  /\ hobs.n < MaxHashOps
  /\ hfiles[p].exists
  /\ hfiles' = [hfiles EXCEPT ![p].exists = FALSE]
  /\ hobs' = [hobs EXCEPT !.n = @ + 1]
  /\ UNCHANGED <<engineVars, lruVars, built, ctrVars, fdVars, calls, exVars,
                 loadVars, retryVars, ctorVars, lockVars>>

(***************************************************************************)
(* load_history as a function of the history file                          *)
(***************************************************************************)
\* the members a history file may hold, as JSON text
OpenedTexts ==
  {<<>>, <<TStr("opened_files")>> \o DumpList(<<>>),
   <<TStr("opened_files")>> \o DumpList(<<"a.txt">>)}

FailedTexts == {<<>>, <<TStr("failed_files")>> \o DumpList(<<"b.txt">>)}

SignatureTexts == {<<>>, <<TStr("file_signatures"), TPunct("{"), TPunct("}")>>}

StatisticsTexts ==
  {<<>>,
   <<TStr("statistics"), TPunct("{"), TPunct("}")>>,
   <<TStr("statistics"), TPunct("{"), TStr("total_opened"), TInt(5),
     TPunct("}")>>,
   <<TStr("statistics")>>
     \o DumpStats([DefaultStatistics EXCEPT !.reset_count = 2,
                                            !.last_opened_file = "a.txt"]),
   <<TStr("statistics"), TNull>>,
   <<TStr("statistics"), TInt(3)>>,
   <<TStr("statistics")>> \o DumpList(<<"total_opened">>),
   <<TStr("statistics")>> \o DumpList(StatKeys),
   <<TStr("statistics"), TStr(AllStatKeysText)>>}

\* the history file holds a JSON object
ObjectTexts ==
  {<<TPunct("{")>> \o o \o f \o z \o st \o <<TPunct("}")>> :
     o \in OpenedTexts, f \in FailedTexts, z \in SignatureTexts,
     st \in StatisticsTexts}

\* the history file is absent, cannot be read, is no JSON text, or holds a
\* JSON value that is no object
BrokenTexts ==
  {Absent, <<Tok("unreadable", "", 0)>>, <<TPunct("{")>>,
   <<TPunct("{"), TStr("opened_files")>>, <<TInt(1)>>, <<TNull>>,
   DumpList(<<"a.txt">>)}

LoadInputs == ObjectTexts \cup BrokenTexts

\* no load_history call is being looked at
NoLoad == [content |-> Absent, done |-> FALSE, out |-> DefaultHistory,
           statsTy |-> "dict"]

\* load_history is called
Load ==
  /\ ~ld.done
  /\ ld' = [ld EXCEPT !.done = TRUE,
                      !.out = LoadResult(ld.content).record,
                      !.statsTy = LoadResult(ld.content).statsTy]
  /\ UNCHANGED <<engineVars, lruVars, built, ctrVars, fdVars, calls, exVars,
                 hashVars, retryVars, ctorVars, lockVars>>

(***************************************************************************)
(* open_file_with_retry                                                    *)
(***************************************************************************)
\* what one call of the platform opener does: it returns True or False, or
\* it raises
OpenOutcomes == {"true", "false", "raise"}

\* no open_file_with_retry call is being looked at
NoRetry ==
  [max_retries |-> 0, attempt |-> 0, outcomes |-> <<>>, waits |-> <<>>,
   result |-> None]

AnotherAttemptAlways(attempt, max) == TRUE

\* lines 872 and 877: attempt < self.config.max_retries - 1
AnotherAttempt(attempt, max) == attempt < max - 1

\* time.sleep(0.3 * (attempt + 1)), in tenths of a second
SleepTenths(attempt) == 3 * (attempt + 1)

\* one pass of the loop of lines 853-878: the opener is called; success
\* returns True, a False or an exception is a failed attempt, after which
\* the call sleeps when another attempt follows
RetryAttempt(outcome) ==
  /\ rt.result = None
  /\ rt.attempt < rt.max_retries
  /\ rt' = [rt EXCEPT
              !.outcomes = Append(@, outcome),
              !.attempt = IF outcome = "true" THEN @ ELSE @ + 1,
              !.result = IF outcome = "true" THEN "True" ELSE @,
              !.waits = IF outcome # "true"
                           /\ AnotherAttempt(rt.attempt, rt.max_retries)
                        THEN Append(@, SleepTenths(rt.attempt)) ELSE @]
  /\ UNCHANGED <<engineVars, lruVars, built, ctrVars, fdVars, calls, exVars,
                 hashVars, loadVars, ctorVars, lockVars>>

\* lines 880-881: range(max_retries) is used up, the call returns False
RetryGivesUp ==
  /\ rt.result = None
  /\ rt.attempt >= rt.max_retries
  /\ rt' = [rt EXCEPT !.result = "False"]
  /\ UNCHANGED <<engineVars, lruVars, built, ctrVars, fdVars, calls, exVars,
                 hashVars, loadVars, ctorVars, lockVars>>

(***************************************************************************)
(* RandomFileOpener.__init__: the caches                                   *)
(***************************************************************************)
\* the cache sizes of a Config
CacheSizes == (0 - 1)..MaxCacheSize

CacheConfigs ==
  [hash_cache_size : CacheSizes, pattern_cache_size : CacheSizes,
   encoding_cache_size : CacheSizes, file_type_cache_size : CacheSizes]

\* _init_caches, lines 477-481: the max_size of the five caches, in the
\* order they are made
ConfiguredSizes(config) ==
  <<config.hash_cache_size, config.pattern_cache_size,
    config.encoding_cache_size, config.hash_cache_size \div 2,
    config.file_type_cache_size>>

\* _init_caches raises: one of its SimpleLRUCache calls does
InitCachesRaises(config) ==
  \E i \in 1..Len(ConfiguredSizes(config)) :
    NewCache(NotBuilt, ConfiguredSizes(config)[i]).state = "failed"

\* lines 374-378: the sizes of the caches made by the except clause
FallbackSizes == <<50, 100, 20, 50, 50>>

\* no engine has been constructed
NoEngine ==
  [config |-> [hash_cache_size |-> 1, pattern_cache_size |-> 1,
               encoding_cache_size |-> 1, file_type_cache_size |-> 1],
   state |-> "none", error |-> None, sizes |-> <<>>]

\* a constructor that lets the error of _init_caches through
EngineBuiltNoFallback(e, config) ==
  IF InitCachesRaises(config)
  THEN [e EXCEPT !.state = "failed", !.error = "ValueError", !.sizes = <<>>]
  ELSE [e EXCEPT !.state = "made", !.error = None,
                 !.sizes = ConfiguredSizes(config)]

\* __init__, lines 369-378: _init_caches, and on any error five caches of
\* fixed sizes
EngineBuilt(e, config) ==
  IF InitCachesRaises(config)
  THEN [e EXCEPT !.state = "made", !.error = None, !.sizes = FallbackSizes]
  ELSE [e EXCEPT !.state = "made", !.error = None,
                 !.sizes = ConfiguredSizes(config)]

\* RandomFileOpener(config) is called
EngineConstruct ==
  /\ eng.state = "none"
  /\ eng' = EngineBuilt(eng, eng.config)
  /\ UNCHANGED <<engineVars, lruVars, built, ctrVars, fdVars, calls, exVars,
                 hashVars, loadVars, retryVars, lockVars>>

(***************************************************************************)
(* The locks of an engine and the order its methods take them in           *)
(***************************************************************************)
\* history_lock, _temp_files_lock, cache_lock (lines 393-402), the _lock of
\* a SimpleLRUCache with those of its two counters, the _lock of the
\* FileDescriptorTracker with those of its two counters, the locks of the
\* two scan counters, and the lock of the logging handlers
Locks ==
  {"history", "temp", "cache", "lru", "hits", "misses", "tracker", "opened",
   "closed", "scanned", "excluded", "log"}

\* line 192: the lock of a SimpleLRUCache is an RLock; every other lock of
\* the engine is a Lock (the logging module's is an RLock too)
Reentrant == {"lru", "log"}

Acq(l) == <<"acquire", l>>

Rel(l) == <<"release", l>>

\* a `with lock:` block around the steps body
With(l, body) == <<Acq(l)>> \o body \o <<Rel(l)>>

\* AtomicCounter.increment / get / set, lines 155-175
CounterLocks(c) == With(c, <<>>)

\* a save_history that keeps history_lock when the write raises
SaveHistoryLocksKeepOnError(outcome) ==
  CASE outcome = "ok" ->
         With("history", With("temp", <<>>)) \o With("temp", <<>>)
    [] outcome = "io_error" ->
         <<Acq("history")>> \o With("temp", <<>>)
         \o With("log", <<>>) \o With("temp", <<>>)
    [] OTHER ->
         With("history", <<>>) \o With("log", <<>>) \o With("temp", <<>>)

\* save_history, lines 755-786: history_lock around the registration of the
\* temp file under _temp_files_lock, the write and the rename; an error of
\* the write or the rename leaves the `with`, is logged, and the finally
\* clause takes _temp_files_lock again; an error of mkdir does the same
\* before the temp file is registered
SaveHistoryLocks(outcome) ==
  CASE outcome = "ok" ->
         With("history", With("temp", <<>>)) \o With("temp", <<>>)
    [] outcome = "io_error" ->
         With("history", With("temp", <<>>))
         \o With("log", <<>>) \o With("temp", <<>>)
    [] OTHER ->
         With("history", <<>>) \o With("log", <<>>) \o With("temp", <<>>)

\* load_history, lines 725-749: history_lock around the read; an error is
\* logged inside the `with`
LoadHistoryLocks(outcome) ==
  IF outcome = "ok" THEN With("history", <<>>)
  ELSE With("history", With("log", <<>>))

\* scan_qualified_files, lines 658-702: cache_lock around the test of the
\* cache, the counters in the loop with no lock held, cache_lock around the
\* replacement of the cache
ScanLocks(outcome) ==
  CASE outcome = "cached" -> With("cache", <<>>)
    [] outcome = "failed" -> With("cache", <<>>) \o CounterLocks("scanned")
    [] OTHER -> With("cache", <<>>) \o CounterLocks("scanned")
                \o CounterLocks("excluded") \o With("cache", <<>>)

\* SimpleLRUCache, lines 196-250
LruLocks(op) ==
  CASE op = "get_hit" -> With("lru", CounterLocks("hits"))
    [] op = "get_miss" -> With("lru", CounterLocks("misses"))
    [] op \in {"clear", "stats"} ->
         With("lru", CounterLocks("hits") \o CounterLocks("misses"))
    [] OTHER -> With("lru", <<>>)

\* FileDescriptorTracker, lines 266-298
TrackerLocks(op) ==
  CASE op = "track_open" -> With("tracker", CounterLocks("opened"))
    [] op = "track_close" -> With("tracker", CounterLocks("closed"))
    [] op = "get_stats" ->
         With("tracker", CounterLocks("opened") \o CounterLocks("closed"))
    [] OTHER -> With("tracker", <<>>)

\* _cleanup_all_temp_files, lines 499-500
CleanupLocks == With("temp", <<>>)

\* reset_history_if_needed, lines 910-917: cache_lock, then the clear of a
\* cache
InvalidateLocks == With("cache", <<>>) \o LruLocks("clear")

\* the lock steps of the calls a caller can make on the engine
LockCalls ==
  {SaveHistoryLocks(o) : o \in {"ok", "io_error", "mkdir_error"}}
  \cup {LoadHistoryLocks(o) : o \in {"ok", "error"}}
  \cup {ScanLocks(o) : o \in {"cached", "failed", "listed"}}
  \cup {LruLocks(o) : o \in {"get_hit", "get_miss", "put", "clear"}}
  \cup {TrackerLocks(o) : o \in {"track_open", "get_stats"}}
  \cup {CleanupLocks, InvalidateLocks}

NotHeld == [by |-> "free", depth |-> 0]

LockInit ==
  /\ lockOwner = [l \in Locks |-> NotHeld]
  /\ lprog = [t \in Threads |-> <<>>]
  /\ lheld = [t \in Threads |-> <<>>]
  /\ lops = 0

\* threading.Lock / RLock: the caller gets the lock when it is free, or its
\* own when the lock is reentrant
CanAcquire(t, l) ==
  \/ lockOwner[l].by = "free"
  \/ lockOwner[l].by = t /\ l \in Reentrant

\* a caller calls a method of the engine
LockCall(t, steps) ==
  /\ lprog[t] = <<>>
  /\ lops < MaxLockOps
  /\ lops' = lops + 1
  /\ lprog' = [lprog EXCEPT ![t] = steps]
  /\ UNCHANGED <<lockOwner, lheld>>
  /\ UNCHANGED <<engineVars, lruVars, built, ctrVars, fdVars, calls, exVars,
                 hashVars, loadVars, retryVars, ctorVars>>

\* the caller enters a `with lock:` block
LockAcquire(t) ==
  /\ lprog[t] # <<>>
  /\ Head(lprog[t])[1] = "acquire"
  /\ CanAcquire(t, Head(lprog[t])[2])
  /\ lockOwner' = [lockOwner EXCEPT ![Head(lprog[t])[2]] =
                                      [by |-> t, depth |-> @.depth + 1]]
  /\ lheld' = [lheld EXCEPT ![t] = Append(@, Head(lprog[t])[2])]
  /\ lprog' = [lprog EXCEPT ![t] = Tail(@)]
  /\ UNCHANGED lops
  /\ UNCHANGED <<engineVars, lruVars, built, ctrVars, fdVars, calls, exVars,
                 hashVars, loadVars, retryVars, ctorVars>>

\* the caller leaves a `with lock:` block
LockRelease(t) ==
  /\ lprog[t] # <<>>
  /\ Head(lprog[t])[1] = "release"
  /\ lockOwner' = [lockOwner EXCEPT ![Head(lprog[t])[2]] =
                     IF @.depth > 1 THEN [@ EXCEPT !.depth = @ - 1]
                     ELSE NotHeld]
  /\ lheld' = [lheld EXCEPT ![t] = SubSeq(@, 1, Len(@) - 1)]
  /\ lprog' = [lprog EXCEPT ![t] = Tail(@)]
  /\ UNCHANGED lops
  /\ UNCHANGED <<engineVars, lruVars, built, ctrVars, fdVars, calls, exVars,
                 hashVars, loadVars, retryVars, ctorVars>>

\* the parts added to the engine start in their initial state
MoreInit ==
  /\ HashInit
  /\ ld = NoLoad
  /\ rt = NoRetry
  /\ eng = NoEngine
  /\ LockInit

(***************************************************************************)
(* The environment                                                         *)
(***************************************************************************)
\* the positions of run() whose next step reads the clock
ClockReaders == {"scan_check", "reset_scanned", "record", "save_begin"}

\* a second passes; the clock is observed only where the code reads it
Tick ==
  /\ events < MaxEvents
  /\ \E t \in Threads : th[t].pc \in ClockReaders
  /\ now' = now + 1
  /\ events' = events + 1
  /\ UNCHANGED <<dirFiles, dirOk, histFile, tmpDisk, pid, history_lock,
                 temp_files, qcache, cache_timestamp, scanned, excluded, th,
                 runs, g>>
  /\ UNCHANGED <<lruVars, partVars>>

\* a file appears in or disappears from the directory, or the directory
\* becomes inaccessible or accessible again; the directory is observed only
\* where the code lists it
DirChange ==
  /\ events < MaxEvents
  /\ \E t \in Threads : th[t].pc = "scan_list"
  /\ events' = events + 1
  /\ \/ \E f \in FileNames :
          /\ dirFiles' = IF f \in dirFiles THEN dirFiles \ {f}
                         ELSE dirFiles \cup {f}
          /\ dirOk' = dirOk
     \/ dirOk' = ~dirOk /\ dirFiles' = dirFiles
  /\ g' = Upset(g)
  /\ UNCHANGED <<histFile, tmpDisk, now, pid, history_lock, temp_files,
                 qcache, cache_timestamp, scanned, excluded, th, runs>>
  /\ UNCHANGED <<lruVars, partVars>>

(***************************************************************************)
(* scan_qualified_files                                                    *)
(***************************************************************************)
\* what the file system says about an entry of the directory
AttrOf(e) ==
  IF e \in SubDirs THEN [RegularFile EXCEPT !.is_file = FALSE]
  ELSE RegularFile

\* the entries os.scandir yields, in its order
DirEntries(files) == SelectSeq(ScanOrder, LAMBDA e : e \in files \cup SubDirs)

\* the entries that pass entry.is_file()
Listing(files) == SelectSeq(DirEntries(files), LAMBDA e : AttrOf(e).is_file)

Excluded(f) == ~ScanKeeps(should_exclude(NameChars(f), AttrOf(f)))

QualifiedOfAll(files) == Listing(files)

\* the names the loop over the entries appends to qualified_files
QualifiedOf(files) == SelectSeq(Listing(files), LAMBDA f : ~Excluded(f))

\* the first k of the entries that pass entry.is_file()
Enumerated(files, k) == SubSeq(Listing(files), 1, k)

ScanErrorAsEmpty(msg) == [files |-> <<>>, ok |-> TRUE, msg |-> None]

\* what the scan returns when the directory cannot be listed
ScanError(msg) == [files |-> <<>>, ok |-> FALSE, msg |-> msg]

\* a show_statistics after which run() selects again
ScanReturnSelectsAgain(t) ==
  CASE th[t].scanRet = "avail" -> "avail"
    [] th[t].scanRet = "reset" -> "reset_scanned"
    [] OTHER -> IF th[t].selected # None /\ th[t].picks < 2
                THEN "select" ELSE "cleanup"

\* where a scan returns to
ScanReturn(t) ==
  CASE th[t].scanRet = "avail" -> "avail"
    [] th[t].scanRet = "reset" -> "reset_scanned"
    [] OTHER -> "cleanup"

\* the cached list may be served: not forced, present and younger than the TTL
CacheFreshIgnoresForce(force, cached, stamp, time) ==
  cached.set /\ (time - stamp) < cache_ttl

CacheFresh(force, cached, stamp, time) ==
  ~force /\ cached.set /\ (time - stamp) < cache_ttl

\* the observation a call starts with
ScanCalled(t) ==
  [NoScan EXCEPT !.force = th[t].force, !.cached = qcache,
                 !.stamp = cache_timestamp, !.time = now,
                 !.scanned = scanned, !.excluded = excluded]

\* lines 656-662: read the clock, then test the cache under cache_lock
ScanCheck(t) ==
  /\ At(t, "scan_check")
  /\ IF CacheFresh(th[t].force, qcache, cache_timestamp, now)
     THEN Set(t, [th[t] EXCEPT !.current_time = now, !.qualified = qcache.files,
                               !.scanOk = TRUE, !.error_msg = None,
                               !.sc = ScanCalled(t), !.ret = "cached",
                               !.pc = ScanReturn(t)])
     ELSE Set(t, [th[t] EXCEPT !.current_time = now, !.sc = ScanCalled(t),
                               !.ret = "none", !.pc = "scan_list"])
  /\ UNCHANGED <<dirFiles, dirOk, histFile, tmpDisk, now, pid, history_lock,
                 temp_files, qcache, cache_timestamp, scanned, excluded,
                 runs, events, g>>
  /\ UNCHANGED <<lruVars, partVars>>

\* the scan comes back with an error
ScanFails(t, msg) ==
  Set(t, [th[t] EXCEPT !.qualified = ScanError(msg).files,
                       !.scanOk = ScanError(msg).ok,
                       !.error_msg = ScanError(msg).msg,
                       !.sc = [@ EXCEPT !.dirOk = dirOk, !.files = dirFiles],
                       !.ret = "failed", !.pc = ScanReturn(t)])

\* lines 664-697: the access checks and the loop over os.scandir
ScanList(t) ==
  /\ At(t, "scan_list")
  /\ IF ~dirOk
     THEN /\ ScanFails(t, "directory not accessible")
          /\ UNCHANGED <<scanned, excluded>>
     ELSE /\ Set(t, [th[t] EXCEPT !.qualified = QualifiedOf(dirFiles),
                                  !.sc = [@ EXCEPT !.dirOk = dirOk,
                                                   !.files = dirFiles],
                                  !.pc = "scan_store"])
          /\ scanned' = scanned + Len(Listing(dirFiles))
          /\ excluded' = excluded
                         + Len(Listing(dirFiles)) - Len(QualifiedOf(dirFiles))
  /\ UNCHANGED <<dirFiles, dirOk, histFile, tmpDisk, now, pid, history_lock,
                 temp_files, qcache, cache_timestamp, runs, events, g>>
  /\ UNCHANGED <<lruVars, partVars>>

\* lines 675-697: os.scandir or the iteration over it raises after k regular
\* files were enumerated; the counters keep what the loop added to them and
\* the except clause returns the error
ScanBreak(t, k) ==
  /\ At(t, "scan_list")
  /\ dirOk
  /\ events < MaxEvents
  /\ k \in 0..Len(Listing(dirFiles))
  /\ events' = events + 1
  /\ ScanFails(t, "scan error")
  /\ scanned' = scanned + k
  /\ excluded' = excluded
                 + Len(SelectSeq(Enumerated(dirFiles, k), Excluded))
  /\ g' = Upset(g)
  /\ UNCHANGED <<dirFiles, dirOk, histFile, tmpDisk, now, pid, history_lock,
                 temp_files, qcache, cache_timestamp, runs>>
  /\ UNCHANGED <<lruVars, partVars>>

\* lines 699-704: replace the cache under cache_lock and return the list
ScanStore(t) ==
  /\ At(t, "scan_store")
  /\ qcache' = [set |-> TRUE, files |-> th[t].qualified]
  /\ cache_timestamp' = th[t].current_time
  /\ Set(t, [th[t] EXCEPT !.scanOk = TRUE, !.error_msg = None,
                          !.ret = "listed", !.pc = ScanReturn(t)])
  /\ UNCHANGED <<dirFiles, dirOk, histFile, tmpDisk, now, pid, history_lock,
                 temp_files, scanned, excluded, runs, events, g>>
  /\ UNCHANGED <<lruVars, partVars>>

(***************************************************************************)
(* save_history                                                            *)
(***************************************************************************)
\* f"{self.history_file}.tmp.{int(time.time())}.{os.getpid()}"
TempName(time, process) == <<time, process>>

DropFile(disk, name) == [n \in DOMAIN disk \ {name} |-> disk[n]]

PutFile(disk, name, text) == (name :> text) @@ disk

\* lines 756-764: take history_lock, name the temp file and register it
SaveBegin(t) ==
  /\ At(t, "save_begin")
  /\ history_lock = "free"
  /\ history_lock' = t
  /\ temp_files' = temp_files \cup {TempName(now, pid)}
  /\ Set(t, [th[t] EXCEPT !.temp_file = TempName(now, pid),
                          !.saves = @ + 1, !.pc = "save_write"])
  /\ g' = [g EXCEPT !.saved = TRUE, !.lastSaved = th[t].saveArg,
                    !.lastSaveOk = FALSE]
  /\ UNCHANGED <<dirFiles, dirOk, histFile, tmpDisk, now, pid, qcache,
                 cache_timestamp, scanned, excluded, runs, events>>
  /\ UNCHANGED <<lruVars, partVars>>

FailedSaveWritesInPlace(durable, text) == text

\* lines 766-773: the text is written into the temp file only, and an
\* os.replace / os.rename that raises leaves its target as it was
FailedSaveLeaves(durable, text) == durable

\* lines 766-767: json.dump into the temp file; on an I/O error the except
\* clause logs it and the lock is released on the way out
SaveWrite(t, ok) ==
  /\ At(t, "save_write")
  /\ IF ok
     THEN /\ tmpDisk' = PutFile(tmpDisk, th[t].temp_file, DumpHistory(th[t].saveArg))
          /\ Set(t, [th[t] EXCEPT !.pc = "save_rename"])
          /\ UNCHANGED <<histFile, history_lock, g, events>>
     ELSE /\ events < MaxEvents
          /\ events' = events + 1
          /\ tmpDisk' = PutFile(tmpDisk, th[t].temp_file, <<>>)
          /\ histFile' = FailedSaveLeaves(histFile, DumpHistory(th[t].saveArg))
          /\ history_lock' = "free"
          /\ Set(t, [th[t] EXCEPT !.fails = @ + 1, !.pc = "save_finally"])
          /\ g' = Upset(g)
  /\ UNCHANGED <<dirFiles, dirOk, now, pid, temp_files, qcache,
                 cache_timestamp, scanned, excluded, runs>>
  /\ UNCHANGED <<lruVars, partVars>>

\* lines 770-773: os.replace / os.rename of the temp file over the history
\* file; it fails when the temp file is gone or on an I/O error
SaveRename(t, ok) ==
  /\ At(t, "save_rename")
  /\ IF ok /\ th[t].temp_file \in DOMAIN tmpDisk
     THEN /\ histFile' = tmpDisk[th[t].temp_file]
          /\ tmpDisk' = DropFile(tmpDisk, th[t].temp_file)
          /\ g' = [g EXCEPT !.lastSaveOk = TRUE,
                            !.kept = IF th[t].saveRet = "stats"
                                     THEN @ \cup {th[t].selected} ELSE @]
          /\ events' = events
          /\ Set(t, [th[t] EXCEPT !.pc = "save_finally"])
     ELSE /\ ok \/ events < MaxEvents
          /\ events' = IF ok THEN events ELSE events + 1
          /\ histFile' = FailedSaveLeaves(histFile, DumpHistory(th[t].saveArg))
          /\ UNCHANGED tmpDisk
          /\ g' = Upset(g)
          /\ Set(t, [th[t] EXCEPT !.fails = @ + 1, !.pc = "save_finally"])
  /\ history_lock' = "free"
  /\ UNCHANGED <<dirFiles, dirOk, now, pid, temp_files, qcache,
                 cache_timestamp, scanned, excluded, runs>>
  /\ UNCHANGED <<lruVars, partVars>>

UnregisterKeeps(registered, name) == registered

\* lines 780-782: the temp file leaves the set of pending temp files
Unregister(registered, name) == registered \ {name}

\* lines 777-786: unregister the temp file and remove it if it still exists
SaveFinally(t) ==
  /\ At(t, "save_finally")
  /\ temp_files' = Unregister(temp_files, th[t].temp_file)
  /\ tmpDisk' = DropFile(tmpDisk, th[t].temp_file)
  /\ Set(t, [th[t] EXCEPT !.pc = th[t].saveRet])
  /\ UNCHANGED <<dirFiles, dirOk, histFile, now, pid, history_lock, qcache,
                 cache_timestamp, scanned, excluded, runs, events, g>>
  /\ UNCHANGED <<lruVars, partVars>>

(***************************************************************************)
(* run, with load_history, get_available_files, reset_history_if_needed,   *)
(* show_statistics and _cleanup_all_temp_files                             *)
(***************************************************************************)
\* run() is called
StartRun(t) ==
  /\ At(t, "idle")
  /\ runs < MaxRuns
  /\ runs' = runs + 1
  /\ Set(t, [InitLocals EXCEPT !.pc = "load", !.hist0 = histFile])
  /\ UNCHANGED <<dirFiles, dirOk, histFile, tmpDisk, now, pid, history_lock,
                 temp_files, qcache, cache_timestamp, scanned, excluded,
                 events, g>>
  /\ UNCHANGED <<lruVars, partVars>>

\* get_available_files, line 790: load_history under history_lock, then the
\* call of scan_qualified_files()
LoadHistory(t) ==
  /\ At(t, "load")
  /\ history_lock = "free"
  /\ Set(t, [th[t] EXCEPT !.history = LoadRecord(histFile), !.scanRet = "avail",
                          !.force = FALSE, !.pc = "scan_check"])
  /\ UNCHANGED <<dirFiles, dirOk, histFile, tmpDisk, now, pid, history_lock,
                 temp_files, qcache, cache_timestamp, scanned, excluded,
                 runs, events, g>>
  /\ UNCHANGED <<lruVars, partVars>>

AfterGetAvailableGoesOn(success) == "reset_check"

\* run, lines 988-994: return (through the finally clause) when
\* get_available_files reports a failure, else go on to
\* reset_history_if_needed
AfterGetAvailable(success) == IF success THEN "reset_check" ELSE "cleanup"

\* get_available_files, lines 797-809, and run's test of success, lines 988-991
GetAvailable(t) ==
  /\ At(t, "avail")
  /\ IF ~th[t].scanOk
     THEN Set(t, [th[t] EXCEPT !.available = <<>>, !.success = FALSE,
                               !.scanFailed = TRUE,
                               !.pc = AfterGetAvailable(FALSE)])
     ELSE Set(t, [th[t] EXCEPT
                    !.available = AvailableOf(th[t].qualified, th[t].history),
                    !.success = TRUE, !.pc = AfterGetAvailable(TRUE)])
  /\ UNCHANGED <<dirFiles, dirOk, histFile, tmpDisk, now, pid, history_lock,
                 temp_files, qcache, cache_timestamp, scanned, excluded,
                 runs, events, g>>
  /\ UNCHANGED <<lruVars, partVars>>

\* reset_history_if_needed, lines 885-886: nothing to do, or a forced scan
ResetCheck(t) ==
  /\ At(t, "reset_check")
  /\ IF th[t].available # <<>>
     THEN Set(t, [th[t] EXCEPT !.given = th[t].history, !.pc = "select"])
     ELSE Set(t, [th[t] EXCEPT !.given = th[t].history,
                               !.scanRet = "reset", !.force = TRUE,
                               !.pc = "scan_check"])
  /\ UNCHANGED <<dirFiles, dirOk, histFile, tmpDisk, now, pid, history_lock,
                 temp_files, qcache, cache_timestamp, scanned, excluded,
                 runs, events, g>>
  /\ UNCHANGED <<lruVars, partVars>>

ResetNeededAlways(ok, qualified) == TRUE

\* reset_history_if_needed, lines 888 and 892: the forced scan succeeded
\* and found a qualified file
ResetNeeded(ok, qualified) == ok /\ qualified # <<>>

\* reset_history_if_needed, lines 888-907 and 920-923, and run's lines 996-999
ResetScanned(t) ==
  /\ At(t, "reset_scanned")
  /\ IF ResetNeeded(th[t].scanOk, th[t].qualified)
     THEN /\ Set(t, [th[t] EXCEPT
                       !.history = ResetRecord(th[t].history, now),
                       !.saveArg = ResetRecord(th[t].history, now),
                       !.saveRet = "reset_saved", !.didReset = TRUE,
                       !.pc = "save_begin"])
          /\ g' = [g EXCEPT !.picked = {}, !.kept = {},
                            !.resets = IF g.quiet THEN @ + 1 ELSE @]
     ELSE /\ Set(t, [th[t] EXCEPT !.scanRet = "stats", !.force = FALSE,
                                  !.pc = "scan_check"])
          /\ g' = g
  /\ UNCHANGED <<dirFiles, dirOk, histFile, tmpDisk, now, pid, history_lock,
                 temp_files, qcache, cache_timestamp, scanned, excluded,
                 runs, events>>
  /\ UNCHANGED <<lruVars, partVars>>

ClearedCacheKeeps(c) == c

\* SimpleLRUCache.clear, line 226: self._cache.clear()
ClearedCache(c) == <<>>

\* reset_history_if_needed, lines 910-919: drop the cached list, clear the
\* LRU caches (_file_hash_cache stands for the five of them) and hand back
\* the full qualified list
ResetSaved(t) ==
  /\ At(t, "reset_saved")
  /\ qcache' = NoCache
  /\ cache' = ClearedCache(cache)
  /\ hits' = CounterSet(hits, 0)
  /\ misses' = CounterSet(misses, 0)
  /\ Set(t, [th[t] EXCEPT !.available = th[t].qualified, !.pc = "select"])
  /\ UNCHANGED <<dirFiles, dirOk, histFile, tmpDisk, now, pid, history_lock,
                 temp_files, cache_timestamp, scanned, excluded, runs,
                 events, g>>
  /\ UNCHANGED <<lruLock, lp, ops, obs, partVars>>

\* line 1002: random.choice(available_files)
Select(t) ==
  /\ At(t, "select")
  /\ \E f \in Range(th[t].available) :
       /\ Set(t, [th[t] EXCEPT !.selected = f, !.pc = "open",
                               !.picks = @ + 1,
                               !.again = f \in g.picked,
                               !.againKept = f \in g.kept])
       /\ g' = [g EXCEPT !.picked = @ \cup {f},
                         !.npicks = IF g.quiet THEN @ + 1 ELSE @]
  /\ UNCHANGED <<dirFiles, dirOk, histFile, tmpDisk, now, pid, history_lock,
                 temp_files, qcache, cache_timestamp, scanned, excluded,
                 runs, events>>
  /\ UNCHANGED <<lruVars, partVars>>

\* line 1006: open_file_with_retry reports success or failure
Open(t, ok) ==
  /\ At(t, "open")
  /\ Set(t, [th[t] EXCEPT !.success = ok, !.opens = @ + 1, !.pc = "record"])
  /\ g' = IF ok THEN g ELSE Upset(g)
  /\ UNCHANGED <<dirFiles, dirOk, histFile, tmpDisk, now, pid, history_lock,
                 temp_files, qcache, cache_timestamp, scanned, excluded,
                 runs, events>>
  /\ UNCHANGED <<lruVars, partVars>>

\* lines 1008-1043: move the file into its history set, update the
\* statistics and call save_history
Record(t) ==
  /\ At(t, "record")
  /\ Set(t, [th[t] EXCEPT
               !.history = RecordOutcome(th[t].history, th[t].selected,
                                         th[t].success, now),
               !.saveArg = RecordOutcome(th[t].history, th[t].selected,
                                         th[t].success, now),
               !.held = th[t].history,
               !.saveRet = "stats", !.pc = "save_begin"])
  /\ UNCHANGED <<dirFiles, dirOk, histFile, tmpDisk, now, pid, history_lock,
                 temp_files, qcache, cache_timestamp, scanned, excluded,
                 runs, events, g>>
  /\ UNCHANGED <<lruVars, partVars>>

\* lines 998 and 1046: show_statistics, which scans again
ShowStatistics(t) ==
  /\ At(t, "stats")
  /\ Set(t, [th[t] EXCEPT !.scanRet = "stats", !.force = FALSE,
                          !.pc = "scan_check"])
  /\ UNCHANGED <<dirFiles, dirOk, histFile, tmpDisk, now, pid, history_lock,
                 temp_files, qcache, cache_timestamp, scanned, excluded,
                 runs, events, g>>
  /\ UNCHANGED <<lruVars, partVars>>

\* lines 1055-1063 with _cleanup_all_temp_files: unlink every registered
\* temp file that exists, then run() returns
Cleanup(t) ==
  /\ At(t, "cleanup")
  /\ tmpDisk' = [n \in DOMAIN tmpDisk \ temp_files |-> tmpDisk[n]]
  /\ Set(t, InitLocals)
  /\ g' = [g EXCEPT !.swept = (g.leftover # {}),
                    !.afterRaise = th[t].raised]
  /\ UNCHANGED <<dirFiles, dirOk, histFile, now, pid, history_lock,
                 temp_files, qcache, cache_timestamp, scanned, excluded,
                 runs, events>>
  /\ UNCHANGED <<lruVars, partVars>>

(***************************************************************************)
(* Sequential calls of run() by one caller                                 *)
(***************************************************************************)
\* the caches of the engine and of the cache scenario are constructed
PartInit ==
  /\ built = NewCache(NotBuilt, max_size)
  /\ cvalue = 0
  /\ ctrLock = "free"
  /\ cp = [t \in Threads |-> CtrIdle]
  /\ cobs = InitCtrObs
  /\ fd = NewTracker
  /\ fobs = InitFdObs
  /\ calls = 0
  /\ ex = NoExclude
  /\ MoreInit

Init == EngineInit /\ DiskInit /\ LruInit /\ PartInit

Next ==
  \/ Tick
  \/ DirChange
  \/ \E t \in {"t1"} :
       \/ StartRun(t)
       \/ LoadHistory(t)
       \/ ScanCheck(t)
       \/ ScanList(t)
       \/ \E k \in 0..Len(EnumOrder) : ScanBreak(t, k)
       \/ ScanStore(t)
       \/ GetAvailable(t)
       \/ ResetCheck(t)
       \/ ResetScanned(t)
       \/ ResetSaved(t)
       \/ Select(t)
       \/ \E ok \in BOOLEAN : Open(t, ok)
       \/ Record(t)
       \/ SaveBegin(t)
       \/ \E ok \in BOOLEAN : SaveWrite(t, ok)
       \/ \E ok \in BOOLEAN : SaveRename(t, ok)
       \/ SaveFinally(t)
       \/ ShowStatistics(t)
       \/ Cleanup(t)

vars == <<engineVars, lruVars, partVars>>

Spec == Init /\ [][Next]_vars

(***************************************************************************)
(* Runs that are interrupted or killed                                     *)
(***************************************************************************)
\* KeyboardInterrupt between the write of the temp file and the rename: the
\* `with` releases the lock, the finally clause of save_history runs, and
\* run() goes through its handler (lines 1048-1049) to its own finally
Interrupt(t) ==
  /\ At(t, "save_rename")
  /\ events < MaxEvents
  /\ events' = events + 1
  /\ history_lock' = "free"
  /\ Set(t, [th[t] EXCEPT !.saveRet = "cleanup", !.raised = TRUE,
                          !.pc = "save_finally"])
  /\ g' = Upset(g)
  /\ UNCHANGED <<dirFiles, dirOk, histFile, tmpDisk, now, pid, temp_files,
                 qcache, cache_timestamp, scanned, excluded, runs>>
  /\ UNCHANGED <<lruVars, partVars>>

\* the process is killed during a run (no handler, no finally clause, no
\* atexit hook runs) and a new process constructs the engine: the files
\* stay as they are, everything in memory starts afresh
Crash ==
  /\ pid < MaxCrashes
  /\ \E t \in Threads : ~At(t, "idle")
  /\ pid' = pid + 1
  /\ history_lock' = "free"
  /\ temp_files' = {}
  /\ qcache' = NoCache
  /\ cache_timestamp' = 0
  /\ scanned' = 0
  /\ excluded' = 0
  /\ th' = [t \in Threads |-> InitLocals]
  /\ g' = [Upset(g) EXCEPT
             !.leftover = @ \cup {th[t].temp_file :
                                   t \in {u \in Threads : At(u, "save_rename")}},
             !.swept = FALSE]
  /\ UNCHANGED <<dirFiles, dirOk, histFile, tmpDisk, now, runs, events>>
  /\ UNCHANGED <<lruVars, partVars>>

\* the places of lines 986-1046 outside save_history and
\* scan_qualified_files (which catch their own errors) where a statement of
\* run(), get_available_files or show_statistics can raise
RaisePoints == {"avail", "select", "record", "stats"}

RaisedGoesToCaller(where) == "idle"

\* lines 1048-1055: `except KeyboardInterrupt` and `except Exception` log
\* and fall through to the finally clause
RaisedGoesTo(where) == "cleanup"

\* an exception is raised at one of these places
Unexpected(t) ==
  /\ th[t].pc \in RaisePoints
  /\ events < MaxEvents
  /\ events' = events + 1
  /\ Set(t, [th[t] EXCEPT !.raised = TRUE, !.pc = RaisedGoesTo(th[t].pc)])
  /\ g' = Upset(g)
  /\ UNCHANGED <<dirFiles, dirOk, histFile, tmpDisk, now, pid, history_lock,
                 temp_files, qcache, cache_timestamp, scanned, excluded, runs>>
  /\ UNCHANGED <<lruVars, partVars>>

CrashNext ==
  \/ Next
  \/ Crash
  \/ \E t \in {"t1"} : Interrupt(t)

SpecCrash == Init /\ [][CrashNext]_vars

(***************************************************************************)
(* Two callers of run() on one engine                                      *)
(***************************************************************************)
\* the directory holds one or two eligible files and nothing but the clock
\* disturbs the runs
ConcStart ==
  /\ EngineInit /\ LruInit /\ PartInit
  /\ dirFiles \in {FileNames, {"a.txt", "n.tmp"}}
  /\ dirOk = TRUE /\ histFile = Absent
  /\ tmpDisk = <<>> /\ now = 0 /\ pid = 0 /\ events = 0 /\ g = InitObs

\* a caller starts its selection attempt: two attempts are made in all
Attempt(t) ==
  /\ runs < Cardinality(Threads)
  /\ StartRun(t)

ConcNext ==
  \/ Tick
  \/ \E t \in Threads :
       \/ Attempt(t)
       \/ LoadHistory(t)
       \/ ScanCheck(t)
       \/ ScanList(t)
       \/ \E k \in 0..Len(EnumOrder) : ScanBreak(t, k)
       \/ ScanStore(t)
       \/ GetAvailable(t)
       \/ ResetCheck(t)
       \/ ResetScanned(t)
       \/ ResetSaved(t)
       \/ Select(t)
       \/ \E ok \in BOOLEAN : Open(t, ok)
       \/ Record(t)
       \/ SaveBegin(t)
       \/ SaveWrite(t, TRUE)
       \/ SaveRename(t, TRUE)
       \/ SaveFinally(t)
       \/ ShowStatistics(t)
       \/ Cleanup(t)

SpecConc == ConcStart /\ [][ConcNext]_vars

(***************************************************************************)
(* Two callers of one SimpleLRUCache                                       *)
(***************************************************************************)
\* the engine is constructed and nothing is run
LruStart ==
  /\ EngineInit /\ LruInit /\ PartInit
  /\ dirFiles = FileNames /\ dirOk = TRUE /\ histFile = Absent
  /\ tmpDisk = <<>> /\ now = 0 /\ pid = 0 /\ events = 0 /\ g = InitObs

LruNext ==
  \E t \in Threads :
    \/ \E k \in LruKeys : LruGet(t, k)
    \/ \E k \in LruKeys, v \in LruValues : LruPutCheck(t, k, v)
    \/ LruPutStore(t)
    \/ \E k \in LruKeys : LruRemove(t, k)
    \/ LruClear(t)

SpecLRU == LruStart /\ [][LruNext]_vars

(***************************************************************************)
(* Construction of a SimpleLRUCache, then its use by two callers           *)
(***************************************************************************)
BuildStart ==
  /\ EngineInit /\ LruInit
  /\ built = NotBuilt
  /\ cvalue = 0 /\ ctrLock = "free" /\ cp = [t \in Threads |-> CtrIdle]
  /\ cobs = InitCtrObs /\ fd = NewTracker /\ fobs = InitFdObs /\ calls = 0
  /\ ex = NoExclude
  /\ MoreInit
  /\ dirFiles = FileNames /\ dirOk = TRUE /\ histFile = Absent
  /\ tmpDisk = <<>> /\ now = 0 /\ pid = 0 /\ events = 0 /\ g = InitObs

BuildNext ==
  \/ \E n \in CtorArgs : LruConstruct(n)
  \/ \E t \in Threads :
       \/ \E k \in LruKeys : LruGet(t, k)
       \/ \E k \in LruKeys, v \in LruValues : LruPutCheck(t, k, v)
       \/ LruPutStore(t)
       \/ \E k \in LruKeys : LruRemove(t, k)
       \/ LruClear(t)

SpecBuild == BuildStart /\ [][BuildNext]_vars

(***************************************************************************)
(* An AtomicCounter used by two callers, and a FileDescriptorTracker       *)
(***************************************************************************)
\* AtomicCounter(initial_value) and FileDescriptorTracker() are constructed
PartsStart ==
  /\ EngineInit /\ LruInit
  /\ built = NewCache(NotBuilt, max_size)
  /\ cvalue \in CtrInitial
  /\ ctrLock = "free" /\ cp = [t \in Threads |-> CtrIdle]
  /\ cobs = [InitCtrObs EXCEPT !.base = cvalue]
  /\ fd = NewTracker /\ fobs = InitFdObs /\ calls = 0
  /\ ex = NoExclude
  /\ MoreInit
  /\ dirFiles = FileNames /\ dirOk = TRUE /\ histFile = Absent
  /\ tmpDisk = <<>> /\ now = 0 /\ pid = 0 /\ events = 0 /\ g = InitObs

PartsNext ==
  \/ \E t \in Threads, op \in CtrOps, a \in CtrAmounts : CtrCall(t, op, a)
  \/ \E t \in Threads : CtrReturn(t)
  \/ TrackOpen
  \/ TrackClose
  \/ GetStats

SpecParts == PartsStart /\ [][PartsNext]_vars

(***************************************************************************)
(* should_exclude on its own                                               *)
(***************************************************************************)
\* file names: none, hidden ones, suffixes in several letter cases, names
\* that contain a pattern or an extension without ending in it, a name with
\* a '?' in it
ExNames ==
  { <<>>,
    <<".", "h">>,
    <<"~", "a">>,
    <<".", "t", "m", "p">>,
    <<"r", ".", "t", "m", "p">>,
    <<"r", ".", "T", "m", "P">>,
    <<"a", ".", "t", "x", "t">>,
    <<"r", ".", "s", "h">>,
    <<"a", ".", "o", "x">>,
    <<"t", "m", "p">>,
    <<"a", "?", ".", "t", "x", "t">>,
    <<"x", ".", "e", "x", "e">> }

\* lists of exclusion patterns
ExPatternLists ==
  { <<>>,
    << <<"*", ".", "t", "m", "p">> >>,
    << <<"*", ".", "T", "M", "P">> >>,
    << <<>>, <<"a">> >>,
    << <<"?", ".", "t", "x", "t">> >>,
    << <<"*", ".", "t", "?", "p">> >>,
    exclude_patterns }

ExExtensionLists == { <<>>, system_executable_extensions }

ExConfigs ==
  [exclude_patterns : ExPatternLists,
   system_executable_extensions : ExExtensionLists,
   exclude_symlinks : BOOLEAN]

\* a configuration, a file name and a state of the path are chosen
ExcludeStart ==
  /\ EngineInit /\ LruInit
  /\ built = NewCache(NotBuilt, max_size)
  /\ cvalue = 0 /\ ctrLock = "free" /\ cp = [t \in Threads |-> CtrIdle]
  /\ cobs = InitCtrObs /\ fd = NewTracker /\ fobs = InitFdObs /\ calls = 0
  /\ ex \in [config : ExConfigs, name : ExNames, attr : FsAttr,
              done : {FALSE}, out : {<<FALSE, None>>}, kept : {FALSE}]
  /\ MoreInit
  /\ dirFiles = FileNames /\ dirOk = TRUE /\ histFile = Absent
  /\ tmpDisk = <<>> /\ now = 0 /\ pid = 0 /\ events = 0 /\ g = InitObs

\* should_exclude is called by the loop of scan_qualified_files
Exclude ==
  /\ ~ex.done
  /\ ex' = [ex EXCEPT
              !.done = TRUE,
              !.out = should_exclude_under(ex.config, ex.name, ex.attr),
              !.kept = ScanKeeps(should_exclude_under(ex.config, ex.name,
                                                      ex.attr))]
  /\ UNCHANGED <<engineVars, lruVars, built, ctrVars, fdVars, calls,
                 moreVars>>

ExcludeNext == Exclude

SpecExclude == ExcludeStart /\ [][ExcludeNext]_vars

\* the same at a path where one of the live checks raises
LiveStart ==
  /\ EngineInit /\ LruInit
  /\ built = NewCache(NotBuilt, max_size)
  /\ cvalue = 0 /\ ctrLock = "free" /\ cp = [t \in Threads |-> CtrIdle]
  /\ cobs = InitCtrObs /\ fd = NewTracker /\ fobs = InitFdObs /\ calls = 0
  /\ ex \in [config : ExConfigs, name : ExNames, attr : FsAttrRaising,
              done : {FALSE}, out : {<<FALSE, None>>}, kept : {FALSE}]
  /\ MoreInit
  /\ dirFiles = FileNames /\ dirOk = TRUE /\ histFile = Absent
  /\ tmpDisk = <<>> /\ now = 0 /\ pid = 0 /\ events = 0 /\ g = InitObs

LiveNext == Exclude

SpecLive == LiveStart /\ [][LiveNext]_vars

(***************************************************************************)
(* get_file_hash called on files that change                               *)
(***************************************************************************)
HashStart ==
  /\ EngineInit /\ LruInit /\ PartInit
  /\ dirFiles = FileNames /\ dirOk = TRUE /\ histFile = Absent
  /\ tmpDisk = <<>> /\ now = 0 /\ pid = 0 /\ events = 0 /\ g = InitObs

HashNext ==
  \/ \E p \in HashPaths, fault \in HashFaults : GetFileHash(p, fault)
  \/ \E p \in HashPaths, m \in MTimes : Touch(p, m)
  \/ \E p \in HashPaths, c \in Contents, z \in FileSizes : Rewrite(p, c, z)
  \/ \E p \in HashPaths : Remove(p)

SpecHash == HashStart /\ [][HashNext]_vars

(***************************************************************************)
(* load_history called on history files of every kind                      *)
(***************************************************************************)
LoadStart ==
  /\ EngineInit /\ LruInit
  /\ built = NewCache(NotBuilt, max_size)
  /\ cvalue = 0 /\ ctrLock = "free" /\ cp = [t \in Threads |-> CtrIdle]
  /\ cobs = InitCtrObs /\ fd = NewTracker /\ fobs = InitFdObs /\ calls = 0
  /\ ex = NoExclude
  /\ HashInit
  /\ rt = NoRetry
  /\ eng = NoEngine
  /\ LockInit
  /\ ld \in [content : LoadInputs, done : {FALSE}, out : {DefaultHistory},
              statsTy : {"dict"}]
  /\ dirFiles = FileNames /\ dirOk = TRUE /\ histFile = Absent
  /\ tmpDisk = <<>> /\ now = 0 /\ pid = 0 /\ events = 0 /\ g = InitObs

LoadNext == Load

SpecLoad == LoadStart /\ [][LoadNext]_vars

(***************************************************************************)
(* open_file_with_retry under every configured bound                       *)
(***************************************************************************)
RetryStart ==
  /\ EngineInit /\ LruInit
  /\ built = NewCache(NotBuilt, max_size)
  /\ cvalue = 0 /\ ctrLock = "free" /\ cp = [t \in Threads |-> CtrIdle]
  /\ cobs = InitCtrObs /\ fd = NewTracker /\ fobs = InitFdObs /\ calls = 0
  /\ ex = NoExclude
  /\ HashInit
  /\ ld = NoLoad
  /\ eng = NoEngine
  /\ LockInit
  /\ rt \in {[NoRetry EXCEPT !.max_retries = m] : m \in 0..MaxRetries}
  /\ dirFiles = FileNames /\ dirOk = TRUE /\ histFile = Absent
  /\ tmpDisk = <<>> /\ now = 0 /\ pid = 0 /\ events = 0 /\ g = InitObs

RetryNext ==
  \/ \E outcome \in OpenOutcomes : RetryAttempt(outcome)
  \/ RetryGivesUp

SpecRetry == RetryStart /\ [][RetryNext]_vars

(***************************************************************************)
(* Runs of an engine whose hash cache has been used                        *)
(***************************************************************************)
\* get_file_hash is called once before the first run
HashBeforeRuns(p) ==
  /\ runs = 0
  /\ hobs.n = 0
  /\ GetFileHash(p, "none")

ResetStart ==
  /\ EngineInit /\ LruInit /\ PartInit
  /\ dirFiles = {"a.txt", "n.tmp"}
  /\ dirOk = TRUE /\ histFile = Absent
  /\ tmpDisk = <<>> /\ now = 0 /\ pid = 0 /\ events = 0 /\ g = InitObs

ResetNext ==
  \/ HashBeforeRuns("p1")
  \/ Next

SpecReset == ResetStart /\ [][ResetNext]_vars

(***************************************************************************)
(* Properties                                                              *)
(***************************************************************************)\* an engine is constructed with a configuration of cache sizes
EngineStart ==
  /\ EngineInit /\ LruInit
  /\ built = NewCache(NotBuilt, max_size)
  /\ cvalue = 0 /\ ctrLock = "free" /\ cp = [t \in Threads |-> CtrIdle]
  /\ cobs = InitCtrObs /\ fd = NewTracker /\ fobs = InitFdObs /\ calls = 0
  /\ ex = NoExclude
  /\ HashInit /\ ld = NoLoad /\ rt = NoRetry /\ LockInit
  /\ eng \in {[NoEngine EXCEPT !.config = c] : c \in CacheConfigs}
  /\ dirFiles = FileNames /\ dirOk = TRUE /\ histFile = Absent
  /\ tmpDisk = <<>> /\ now = 0 /\ pid = 0 /\ events = 0 /\ g = InitObs

EngineNext == EngineConstruct

SpecEngine == EngineStart /\ [][EngineNext]_vars

\* two callers call the methods of one engine that take locks
LocksStart ==
  /\ EngineInit /\ LruInit /\ PartInit
  /\ dirFiles = FileNames /\ dirOk = TRUE /\ histFile = Absent
  /\ tmpDisk = <<>> /\ now = 0 /\ pid = 0 /\ events = 0 /\ g = InitObs

LocksNext ==
  \E t \in Threads :
    \/ \E steps \in LockCalls : LockCall(t, steps)
    \/ LockAcquire(t)
    \/ LockRelease(t)

SpecLocks == LocksStart /\ [][LocksNext]_vars

\* runs in which a statement of run() raises
RunStart ==
  /\ EngineInit /\ DiskInit /\ LruInit /\ PartInit
  /\ dirFiles = {"a.txt", "n.tmp"}

RunNext ==
  \/ Next
  \/ \E t \in {"t1"} : Unexpected(t) \/ Interrupt(t)

SpecRun == RunStart /\ [][RunNext]_vars

Disjoint(h) == Range(h.opened_files) \cap Range(h.failed_files) = {}

\* the record the history file holds
Durable == LoadRecord(histFile)

\* C1: in every in-memory record of a run (the loaded one, the one being
\* updated, the one handed to save_history) and in the record the history
\* file holds, no filename is in both opened_files and failed_files.
C1_MutualExclusion ==
  /\ \A t \in Threads : Disjoint(th[t].history) /\ Disjoint(th[t].saveArg)
  /\ Disjoint(Durable)

\* a failed open has been persisted after a reset
C1_Witness ==
  /\ Durable.statistics.reset_count >= 1
  /\ Durable.failed_files # <<>>

Eligible == QualifiedOf(dirFiles)

\* C3: from a fresh history and with N eligible files, while every open and
\* every save succeeds: the first selections pick distinct files and no
\* reset happens in the first N runs; run N+1 finds nothing available,
\* resets the history (reset_count 1, the sets empty) and selects from the
\* full list of the N files.
C3_ExhaustThenReset ==
  (g.quiet /\ Len(Eligible) >= 1) =>
    /\ runs <= Len(Eligible) => g.resets = 0
    /\ g.resets = 0 => Cardinality(g.picked) = g.npicks
    /\ \A t \in Threads :
         runs = Len(Eligible) + 1 =>
           /\ At(t, "reset_check") => th[t].available = <<>>
           /\ At(t, "select") =>
                /\ th[t].didReset /\ g.resets = 1
                /\ th[t].history.statistics.reset_count = 1
                /\ th[t].history.opened_files = <<>>
                /\ th[t].history.failed_files = <<>>
                /\ th[t].available = Eligible
           /\ At(t, "open") => th[t].selected \in Range(Eligible)

\* the third run, with two eligible files, has reset and selected
C3_Witness ==
  \E t \in Threads :
    /\ g.quiet /\ Len(Eligible) = 2 /\ runs = 3
    /\ At(t, "open") /\ th[t].didReset

PositionIn(q, f) == CHOOSE i \in 1..Len(q) : q[i] = f

\* C4: when the scan succeeded, get_available_files hands run() the loaded
\* history and exactly the qualified names that are in neither of its sets,
\* once each and in scan order; when the scan failed, an empty list,
\* success = false and the scan's error message.
C4_Available ==
  \A t \in Threads :
    /\ At(t, "reset_check") =>
         LET a == th[t].available
             q == th[t].qualified
             h == th[t].history
         IN  /\ th[t].success
             /\ h = Durable
             /\ Range(a) = Range(q) \ (Range(h.opened_files)
                                       \cup Range(h.failed_files))
             /\ \A i, j \in 1..Len(a) :
                  i < j => PositionIn(q, a[i]) < PositionIn(q, a[j])
    /\ (At(t, "cleanup") /\ ~th[t].success /\ th[t].selected = None) =>
         /\ th[t].available = <<>>
         /\ th[t].error_msg # None

\* a failed file is left out and another file is available
C4_Witness ==
  \E t \in Threads :
    /\ At(t, "reset_check")
    /\ th[t].history.failed_files # <<>>
    /\ th[t].available # <<>>
    /\ Len(th[t].available) < Len(th[t].qualified)

JustLoaded(t) == At(t, "scan_check") /\ th[t].scanRet = "avail"

C6_CrashLeavesNoTemp ==
  g.leftover # {} =>
    /\ histFile = Absent \/ JsonLoad(histFile).ok
    /\ g.swept => g.leftover \cap DOMAIN tmpDisk = {}

\* a selection was made, and no reset, by the run t is finishing
RecordedBy(t) ==
  At(t, "cleanup") /\ th[t].selected # None /\ ~th[t].didReset

\* C7: when the runs of two callers on one engine have both recorded and
\* saved an outcome (neither of them reset the history), the history file
\* holds both outcomes.
C7_NoLostUpdate ==
  (\A t \in Threads : RecordedBy(t)) =>
    \A t \in Threads :
      th[t].selected \in Range(IF th[t].success THEN Durable.opened_files
                               ELSE Durable.failed_files)

\* C11: a SimpleLRUCache(n) call with n <= 0 ends in ValueError and leaves
\* no cache (nothing is stored, no operation runs); a call with n > 0 yields
\* a cache whose max_size is n, and stays n through every later operation.
C11_Construction ==
  /\ built.state = "failed" =>
       /\ built.arg <= 0 /\ built.error = "ValueError"
       /\ built.max_size = None
       /\ cache = <<>> /\ hits = 0 /\ misses = 0
       /\ obs.last.op = "none"
  /\ built.state = "made" =>
       /\ built.arg > 0 /\ built.error = None
       /\ built.max_size = built.arg

\* after a refused construction a cache was made and has been filled
C11_Witness ==
  /\ built.failures > 0 /\ built.state = "made"
  /\ Len(cache) = built.max_size /\ obs.last.op = "put"

\* C12: whenever no counter call is in progress, the value is the initial
\* value (or the value of the last set / reset) plus the increments minus
\* the decrements called since, however the callers' calls interleaved.
C12_NoLostUpdate ==
  (\A t \in Threads : cp[t].pc = "idle") =>
    cvalue = cobs.base + cobs.incs - cobs.decs

\* an increment and a decrement have completed, one right after the other
C12_Witness ==
  /\ \A t \in Threads : cp[t].pc = "idle"
  /\ cobs.incs > 0 /\ cobs.decs > 0
  /\ cobs.last.op \in {"increment", "decrement"}
  /\ cobs.last.prevOp \in {"increment", "decrement"}

\* C13: increment(a) and decrement(a) return the value after the change; a
\* get() that follows returns the same value; reset() returns the value held
\* before and leaves 0.
C13_ReturnValues ==
  LET l == cobs.last
  IN  /\ l.op = "increment" => (l.ret = l.before + l.amount /\ cvalue = l.ret)
      /\ l.op = "decrement" => (l.ret = l.before - l.amount /\ cvalue = l.ret)
      /\ (l.op = "get" /\ l.prevOp \in {"increment", "decrement"}) =>
           (l.ret = l.prevRet /\ cvalue = l.ret)
      /\ l.op = "reset" => (l.ret = l.before /\ cvalue = 0)

\* a reset of a non-zero counter right after a get that followed a decrement
C13_Witness ==
  /\ cobs.last.op = "reset" /\ cobs.last.before # 0
  /\ cobs.last.prevOp = "get"

\* C14: 0 <= current <= max; max is the highest value current has had;
\* opened and closed count the track_open and track_close calls; a
\* track_close at current = 0 leaves 0 and is counted; get_stats reports
\* these values and leaked = max(0, opened - closed).
C14_Tracker ==
  /\ 0 <= fd.count /\ fd.count <= fd.max_count
  /\ fd.max_count = fobs.peak
  /\ fd.opened = fobs.opens /\ fd.closed = fobs.closes
  /\ (fobs.last = "close" /\ fobs.before = 0) => fd.count = 0
  /\ fobs.last = "stats" =>
       /\ fobs.stats.current = fd.count /\ fobs.stats.max = fobs.peak
       /\ fobs.stats.opened = fobs.opens /\ fobs.stats.closed = fobs.closes
       /\ fobs.stats.leaked = IF fobs.opens > fobs.closes
                               THEN fobs.opens - fobs.closes ELSE 0

\* statistics taken after more closes than opens
C14_Witness ==
  /\ fobs.last = "stats"
  /\ fobs.closes > fobs.opens /\ fobs.opens > 0

\* the configured patterns
ExPatterns ==
  {ex.config.exclude_patterns[i] : i \in 1..Len(ex.config.exclude_patterns)}

\* the configured extensions
ExExtensions ==
  {ex.config.system_executable_extensions[i] :
     i \in 1..Len(ex.config.system_executable_extensions)}

\* the name is not empty and starts with neither '.' nor '~'
ExPlainName == ex.name # <<>> /\ ex.name[1] \notin {".", "~"}

\* C15: for a non-empty name that starts with '.' or '~', should_exclude
\* returns (True, "hidden file"), whatever the patterns, the extensions and
\* the state of the path.
C15_HiddenFile ==
  (ex.done /\ ex.name # <<>> /\ ex.name[1] \in {".", "~"}) =>
    ex.out = <<TRUE, "hidden file">>

\* a hidden name that also matches a pattern, at a path that does not exist
C15_Witness ==
  /\ ex.done /\ ex.name = <<".", "t", "m", "p">>
  /\ <<"*", ".", "t", "m", "p">> \in ExPatterns
  /\ ~ex.attr.exists

\* C16: when a pattern "*.ext" is configured, a non-hidden name that ends
\* in ".ext", in any letter case of name and pattern, is excluded with
\* reason "pattern match".
C16_SuffixPattern ==
  (/\ ex.done /\ ExPlainName
   /\ \E p \in ExPatterns :
        /\ Len(p) >= 2 /\ p[1] = "*" /\ p[2] = "."
        /\ EndsWith(Lower(ex.name), Lower(Tail(p))))
  => ex.out = <<TRUE, "pattern match">>

\* a name in mixed case under a pattern in another case
C16_Witness ==
  /\ ex.done /\ ex.name = <<"r", ".", "T", "m", "P">>
  /\ ex.config.exclude_patterns = << <<"*", ".", "t", "m", "p">> >>

\* C17 (as claimed): an existing, regular, readable file that is no symlink,
\* whose name starts with neither '.' nor '~' and matches no configured
\* pattern, is not excluded.
C17_PlainFileKept ==
  (/\ ex.done /\ ExPlainName /\ ex.attr = RegularFile
   /\ \A p \in ExPatterns : ~PatternMatches(ex.name, p))
  => ex.out = <<FALSE, None>>

\* C17 (amended): such a file is not excluded when, in addition, its
\* lower-cased name ends with none of the configured
\* system_executable_extensions.
C17_PlainFileKeptUnlessExecutable ==
  (/\ ex.done /\ ExPlainName /\ ex.attr = RegularFile
   /\ \A p \in ExPatterns : ~PatternMatches(ex.name, p)
   /\ \A e \in ExExtensions : ~EndsWith(Lower(ex.name), e))
  => ex.out = <<FALSE, None>>

\* a kept file whose name contains an extension of the list without ending
\* in it
C17_Witness ==
  /\ ex.done /\ ex.name = <<"a", ".", "o", "x">> /\ ex.attr = RegularFile
  /\ ExExtensions # {} /\ ExPatterns # {}
  /\ ex.out = <<FALSE, None>>

\* C8: the number of stored entries never exceeds max_size, whatever the
\* callers put, get, remove and clear and however their calls interleave.
C8_SizeBounded == Len(cache) <= max_size

\* a put into a full cache has completed while the cache was shared
C8_Witness ==
  /\ obs.last.op = "put" /\ obs.last.full /\ ~obs.last.present
  /\ Len(cache) = max_size

\* C9: a completed put of a new key into a full cache evicted exactly one
\* entry, the key whose latest put or successful get was the oldest; a put
\* of a present key evicted nothing; in both cases the key now holds the
\* value and is the most recently used entry.
C9_PutEvictsOldest ==
  obs.last.op = "put" =>
    LET l == obs.last
    IN  /\ (~l.present /\ l.full) =>
             Keys(cache) = (l.before \ {l.oldest}) \cup {l.key}
        /\ (~l.present /\ l.full) => l.oldest \in l.before \ Keys(cache)
        /\ (~l.present /\ ~l.full) => Keys(cache) = l.before \cup {l.key}
        /\ l.present => Keys(cache) = l.before
        /\ cache # <<>> /\ cache[Len(cache)] = <<l.key, l.val>>

\* an eviction after a successful get has refreshed some key
C9_Witness ==
  /\ obs.last.op = "put" /\ obs.last.full /\ ~obs.last.present
  /\ obs.gets_present > 0

\* C10: hits and misses count the get calls on present and on absent keys
\* since construction or the last clear; put and remove leave them alone;
\* after clear the cache is empty and both counters are 0.
C10_Counters ==
  /\ hits = obs.gets_present
  /\ misses = obs.gets_absent
  /\ obs.last.op = "clear" => (cache = <<>> /\ hits = 0 /\ misses = 0)

\* a clear of a non-empty cache whose counters had counted
C10_Witness ==
  /\ obs.last.op = "clear"
  /\ obs.last.counted > 0
  /\ obs.last.before # {}

(***************************************************************************)
(* scan_qualified_files (one caller)                                       *)
(***************************************************************************)
\* the cached list was usable when the call read the clock: the call was not
\* forced, a cached list existed and was younger than cache_ttl
CacheUsable(o) == ~o.force /\ o.cached.set /\ (o.time - o.stamp) < cache_ttl

\* the call went on to list the directory
ScanListed(t) ==
  \/ th[t].ret \in {"listed", "failed"}
  \/ th[t].pc \in {"scan_list", "scan_store"}

\* C18: a call of scan_qualified_files returns the cached list as it is,
\* with success and no error, and leaves the counters of scanned and of
\* excluded files alone, exactly when it is not forced and a cached list
\* exists whose age at the call's reading of the clock is below cache_ttl;
\* every other call, and every forced call, lists the directory
C18_CachedScan ==
  \A t \in Threads :
    /\ th[t].ret = "cached" =>
         /\ CacheUsable(th[t].sc)
         /\ th[t].qualified = th[t].sc.cached.files
         /\ th[t].scanOk
         /\ th[t].error_msg = None
         /\ scanned = th[t].sc.scanned
         /\ excluded = th[t].sc.excluded
    /\ ScanListed(t) => ~CacheUsable(th[t].sc)
    /\ th[t].pc \in {"scan_list", "scan_store"} \/ th[t].ret # "none"
         => (th[t].ret = "cached") # ScanListed(t)

\* a later run is served a non-empty list from the cache
C18_Witness ==
  \E t \in Threads :
    /\ th[t].ret = "cached"
    /\ th[t].sc.cached.files # <<>>
    /\ runs >= 2

\* the step in which the scan of caller t comes back as `how`
ScanComesBack(t, how) == th[t].ret # how /\ th'[t].ret = how

\* C19: when the directory cannot be accessed, or its listing breaks off
\* part-way, the scan returns to its caller with the empty list, success =
\* false and a non-empty error message; a scan that returns a listing found
\* the directory accessible
C19_ScanFailure ==
  [][\A t \in Threads :
       /\ ScanComesBack(t, "failed") =>
            /\ th'[t].qualified = <<>>
            /\ th'[t].scanOk = FALSE
            /\ th'[t].error_msg \notin {None, ""}
            /\ th'[t].pc = ScanReturn(t)
            /\ UNCHANGED <<qcache, cache_timestamp>>
       /\ (th[t].pc = "scan_list" /\ th'[t].pc # "scan_list" /\ ~dirOk)
            => th'[t].ret = "failed"]_vars

\* a listing broke off after it had counted an entry
C19_Witness ==
  \E t \in Threads :
    /\ th[t].ret = "failed"
    /\ th[t].sc.dirOk
    /\ scanned > th[t].sc.scanned

\* C20: a scan that lists the directory with success returns exactly the
\* regular files of the directory that should_exclude does not exclude, in
\* the order of the enumeration, and in the step that returns them makes
\* that list the cached list, stamped with the time the scan read
C20_FreshScan ==
  [][\A t \in Threads :
       ScanComesBack(t, "listed") =>
         LET q == th'[t].qualified IN
         /\ Range(q)
              = {f \in th[t].sc.files :
                   ~should_exclude(NameChars(f), RegularFile)[1]}
         /\ \A e \in SubDirs : e \notin Range(q)
         /\ \A i, j \in 1..Len(q) :
              i < j => PositionIn(ScanOrder, q[i]) < PositionIn(ScanOrder, q[j])
         /\ th'[t].scanOk
         /\ th'[t].error_msg = None
         /\ th'[t].pc = ScanReturn(t)
         /\ qcache' = [set |-> TRUE, files |-> q]
         /\ cache_timestamp' = th[t].sc.time]_vars

\* a scan returned some files, left n.tmp out and cached what it returned
C20_Witness ==
  \E t \in Threads :
    /\ th[t].ret = "listed"
    /\ th[t].pc = ScanReturn(t)
    /\ "n.tmp" \in th[t].sc.files
    /\ th[t].qualified # <<>>
    /\ qcache = [set |-> TRUE, files |-> th[t].qualified]

(***************************************************************************)
(* get_file_hash                                                           *)
(***************************************************************************)
\* the last two calls of get_file_hash were made on the same path
SamePathTwice ==
  hobs.prev.made /\ hobs.last.made /\ hobs.prev.path = hobs.last.path

\* both calls found the file, with the same size and modification time
SameStat(a, b) ==
  /\ a.exists /\ b.exists
  /\ a.size = b.size
  /\ a.mtime = b.mtime

\* the second call found the file as the first did, but for its
\* modification time
OnlyTouched(a, b) ==
  /\ a.exists /\ b.exists
  /\ a.size = b.size
  /\ a.content = b.content
  /\ a.mtime # b.mtime

\* the digest of what the file holds, by the size of the file
DigestOf(file) ==
  IF file.size <= max_file_size_for_full_hash
  THEN FullDigest(file.content)
  ELSE SamplingDigest(file.content)

\* C21: when get_file_hash returned a hash for a file and is called again on
\* it, and the file has then the size and modification time it had (and can
\* be examined), the second call returns the same hash, the hit counter of
\* the hash cache grows by one and the file is not opened
C21_SecondCallCached ==
  (/\ SamePathTwice
   /\ SameStat(hobs.prev.file, hobs.last.file)
   /\ Truthy(hobs.prev.ret)
   /\ hobs.last.looked)
  => /\ hobs.last.ret = hobs.prev.ret
     /\ hobs.last.hitsAfter = hobs.last.hits + 1
     /\ ~hobs.last.opened
     /\ hobs.last.fdAfter = hobs.last.fd

\* a file was read and hashed, then hashed again from the cache
C21_Witness ==
  /\ SamePathTwice
  /\ SameStat(hobs.prev.file, hobs.last.file)
  /\ hobs.prev.opened
  /\ Truthy(hobs.prev.ret)
  /\ hobs.last.ret = hobs.prev.ret
  /\ hits = 1

\* C22 as stated: once a file is touched, its content and size being what
\* they were, get_file_hash returns another hash than before
C22_TouchChangesHash ==
  (/\ SamePathTwice
   /\ OnlyTouched(hobs.prev.file, hobs.last.file)
   /\ Truthy(hobs.prev.ret)
   /\ Truthy(hobs.last.ret))
  => hobs.last.ret # hobs.prev.ret

\* C22, amended: touching a file changes the key under which its hash is
\* cached, not the hash.  A call on the touched file whose key (path, size,
\* new modification time) is not in the cache counts no hit and, met by no
\* I/O error, opens the file and returns the digest of its content: the very
\* hash the call before it returned if that call had read the file
C22_TouchRecomputes ==
  (/\ SamePathTwice
   /\ OnlyTouched(hobs.prev.file, hobs.last.file)
   /\ hobs.last.looked
   /\ <<hobs.last.path, hobs.last.file.size, hobs.last.file.mtime>>
        \notin hobs.last.keys)
  => /\ hobs.last.hitsAfter = hobs.last.hits
     /\ hobs.last.fault = "none" =>
          /\ hobs.last.opened
          /\ hobs.last.ret = DigestOf(hobs.last.file)
          /\ (hobs.prev.opened /\ Truthy(hobs.prev.ret))
               => hobs.last.ret = hobs.prev.ret

\* a file was hashed, touched and hashed again with the same result
C22_Witness ==
  /\ SamePathTwice
  /\ OnlyTouched(hobs.prev.file, hobs.last.file)
  /\ hobs.prev.opened /\ hobs.last.opened
  /\ Truthy(hobs.last.ret)
  /\ hobs.last.ret = hobs.prev.ret

\* C23: get_file_hash returns the empty string when the path does not exist
\* and when an I/O error meets a call that no cached hash serves, in the
\* full read and in the sampling read alike, and when it has returned the
\* tracker has counted as many closes as opens and no file is open
C23_HashFailure ==
  hobs.last.made =>
    /\ ~hobs.last.file.exists => hobs.last.ret = ""
    /\ (hobs.last.fault # "none" /\ ~hobs.last.served)
         => hobs.last.ret = ""
    /\ hobs.last.fdAfter.opened - hobs.last.fd.opened
         = hobs.last.fdAfter.closed - hobs.last.fd.closed
    /\ hobs.last.fdAfter.count = hobs.last.fd.count
    /\ fd.opened = fd.closed /\ fd.count = 0

\* the read of a large file broke off after the file was opened
C23_Witness ==
  /\ hobs.last.made
  /\ hobs.last.fault = "read"
  /\ hobs.last.file.size > max_file_size_for_full_hash
  /\ hobs.last.opened
  /\ hobs.last.ret = ""
  /\ fd.opened = 1 /\ fd.closed = 1

(***************************************************************************)
(* reset_history_if_needed                                                 *)
(***************************************************************************)
\* reset_history_if_needed has just returned a reset to run()
ResetReturned(t) == At(t, "select") /\ th[t].didReset

\* what a reset hands back, but for the persisting of the record: the full
\* list of a forced directory listing, a record with empty sets whose
\* reset_count and total_resets are one higher than those of the record
\* passed in, its other totals kept, and every cache empty
ResetResult(t) ==
  LET new == th[t].history
      old == th[t].given
  IN  /\ th[t].sc.force /\ th[t].ret = "listed"
      /\ th[t].qualified # <<>>
      /\ th[t].available = th[t].qualified
      /\ new.opened_files = <<>>
      /\ new.failed_files = <<>>
      /\ new.file_signatures = <<>>
      /\ new.statistics.reset_count = old.statistics.reset_count + 1
      /\ new.statistics.total_resets = old.statistics.total_resets + 1
      /\ new.statistics.total_opened = old.statistics.total_opened
      /\ new.statistics.total_failed = old.statistics.total_failed
      /\ new.statistics.last_opened_file = old.statistics.last_opened_file
      /\ qcache = NoCache
      /\ cache = <<>> /\ hits = 0 /\ misses = 0

\* the forced scan of a reset never answers from the cache
ResetScansAfresh ==
  \A t \in Threads :
    (th[t].scanRet = "reset" /\ th[t].pc \in {"scan_list", "scan_store",
                                              "reset_scanned"})
      => th[t].sc.force /\ th[t].ret # "cached"

C26_LoadRepairs ==
  ld.done =>
    LET r == JsonLoad(ld.content) IN
    /\ Range(HistoryKeys) \subseteq DOMAIN ld.out
    /\ ld.statsTy = "dict"
    /\ ld.statsTy = "dict" => Range(StatKeys) \subseteq DOMAIN ld.out.statistics
    /\ (ld.content # Absent /\ r.ok /\ r.ty = "dict") =>
         /\ \A k \in DOMAIN r.v \ {"statistics"} : ld.out[k] = r.v[k]
         /\ ("statistics" \in DOMAIN r.v /\ r.tys["statistics"] = "dict") =>
              \A k \in DOMAIN r.v["statistics"] :
                ld.out.statistics[k] = r.v["statistics"][k]

(***************************************************************************)
(* open_file_with_retry                                                    *)
(***************************************************************************)
\* the waits after the first n failed attempts, in tenths of a second
WaitsAfter(n) == [k \in 1..n |-> 3 * k]

\* C27: open_file_with_retry calls the opener at most max_retries times; it
\* returns True at the first attempt that succeeds and has then waited
\* 0.3 (k+1) s after each failed attempt k before it; an opener that returns
\* False or raises is a failed attempt; once max_retries attempts have
\* failed it returns False, having waited after each of them but the last
C27_Retry ==
  LET n == Len(rt.outcomes) IN
  /\ n <= rt.max_retries
  /\ rt.result \in {None, "True", "False"}
  /\ \A k \in 1..(n - 1) : rt.outcomes[k] # "true"
  /\ rt.result = "True" <=> (n > 0 /\ rt.outcomes[n] = "true")
  /\ rt.result = "True" => rt.waits = WaitsAfter(n - 1)
  /\ rt.result = "False" =>
       /\ n = rt.max_retries
       /\ rt.waits = WaitsAfter(IF n = 0 THEN 0 ELSE n - 1)
  /\ rt.result = None =>
       rt.waits = WaitsAfter(IF n < rt.max_retries THEN n
                             ELSE IF n = 0 THEN 0 ELSE n - 1)

\* three attempts failed, one of them by raising, and the call gave up
\* after waiting 0.3 s and 0.6 s
C27_Witness ==
  /\ rt.max_retries = 3
  /\ rt.result = "False"
  /\ "raise" \in Range(rt.outcomes)
  /\ "false" \in Range(rt.outcomes)
  /\ rt.waits = <<3, 6>>

(***************************************************************************)
(* C25                                                                     *)
(***************************************************************************)
\* the sweep of _cleanup_all_temp_files has been made: no registered temp
\* file is on the disk
SweepDone == DOMAIN tmpDisk \cap temp_files = {}

\* C25: run() comes back to its caller only through its finally clause, on
\* every path (normal completion, scan failure, nothing available, an
\* exception raised in the sequence or an interrupt): every step in which a
\* run ends is the cleanup step, and the sweep has been made when it ends;
\* a run in which an exception was raised goes to the cleanup next (an
\* interrupted save_history through its own finally clause first)
C25_AlwaysCleanup ==
  [][\A t \in Threads :
       /\ (th[t].pc # "idle" /\ th'[t].pc = "idle")
            => (th[t].pc = "cleanup" /\ SweepDone')
       /\ (~th[t].raised /\ th'[t].raised)
            => \/ th'[t].pc = "cleanup"
               \/ th'[t].pc = "save_finally" /\ th'[t].saveRet = "cleanup"]_vars

\* an exception was raised in a run, and the run has returned after its
\* cleanup
C25_Witness ==
  /\ g.afterRaise
  /\ th["t1"].pc = "idle"
  /\ SweepDone

(***************************************************************************)
(* C28                                                                     *)
(***************************************************************************)
\* save_history has come back to run() after the update for the open attempt
OutcomeSaved(t) == At(t, "stats") /\ th[t].selected # None

\* record p shows the outcome ok of opening file f, where the run held
\* record h when the opener reported
ShowsOutcome(p, h, f, ok) ==
  /\ IF ok
     THEN /\ f \in Range(p.opened_files)
          /\ f \notin Range(p.failed_files)
          /\ p.statistics.total_opened = h.statistics.total_opened + 1
          /\ p.statistics.last_opened_file = f
     ELSE /\ f \in Range(p.failed_files)
          /\ f \notin Range(p.opened_files)
          /\ p.statistics.total_failed = h.statistics.total_failed + 1
          /\ p.statistics.last_opened_file = h.statistics.last_opened_file
  /\ \A x \in FileNames \ {f} :
       /\ x \in Range(p.opened_files) <=> x \in Range(h.opened_files)
       /\ x \in Range(p.failed_files) <=> x \in Range(h.failed_files)

HasWildcard(p) == \E i \in 1..Len(p) : p[i] \in {"*", "?"}

IsSuffixPattern(p) == Len(p) >= 2 /\ p[1] = "*" /\ p[2] = "."

\* the one test the claim gives each pattern
OneTestDecides(name, p) ==
  IF IsSuffixPattern(p) THEN EndsWith(Lower(name), Lower(Tail(p)))
  ELSE IF ~HasWildcard(p) THEN Contains(name, p)
  ELSE FnMatch(name, p)

\* the tests in the order the loop makes them
SubstringThenGlob(name, p) ==
  IF IsSuffixPattern(p) THEN EndsWith(Lower(name), Lower(Tail(p)))
  ELSE Contains(name, p) \/ (HasWildcard(p) /\ FnMatch(name, p))

\* C29 (as claimed): for a name that passes the first two rules, the
\* pattern rule excludes it iff some configured, non-empty pattern matches
\* by its one test: the case-insensitive suffix test for a pattern that
\* begins with "*.", else substring containment for a pattern without a
\* wildcard, else the glob match of the whole name.
C29_OneTestPerPattern ==
  (ex.done /\ ExPlainName) =>
    (ex.out = <<TRUE, "pattern match">>
       <=> \E p \in ExPatterns \ {<<>>} : OneTestDecides(ex.name, p))

\* C29 (amended): a pattern that begins with "*." matches iff the name
\* ends, case-insensitively, with the rest of the pattern; any other pattern
\* matches when it is a substring of the name and, when it is not, a
\* pattern with a wildcard matches iff the glob match of the whole name
\* succeeds.
C29_SubstringBeforeGlob ==
  (ex.done /\ ExPlainName) =>
    (ex.out = <<TRUE, "pattern match">>
       <=> \E p \in ExPatterns \ {<<>>} : SubstringThenGlob(ex.name, p))

\* a name that holds a pattern with a wildcard as a substring and is not
\* matched by it as a glob has been excluded by that pattern
C29_Witness ==
  /\ ex.done /\ ex.name = <<"a", "?", ".", "t", "x", "t">>
  /\ ex.config.exclude_patterns = << <<"?", ".", "t", "x", "t">> >>
  /\ ~FnMatch(ex.name, <<"?", ".", "t", "x", "t">>)
  /\ ex.out = <<TRUE, "pattern match">>

\* the rules in the order of the claim: <<the rule applies, its reason>>
RulesInOrder ==
  << <<ex.name = <<>>, "empty name">>,
     <<ex.name # <<>> /\ ex.name[1] \in {".", "~"}, "hidden file">>,
     <<\E p \in ExPatterns : PatternMatches(ex.name, p), "pattern match">>,
     <<\E e \in ExExtensions : EndsWith(Lower(ex.name), e),
       "executable/system file">>,
     <<~ex.attr.exists, "file does not exist">>,
     <<~ex.attr.is_file, "not a file">>,
     <<~ex.attr.readable, "file not readable">>,
     <<ex.config.exclude_symlinks /\ ex.attr.is_symlink, "symbolic link">> >>

Applying == {i \in 1..Len(RulesInOrder) : RulesInOrder[i][1]}

\* C30: should_exclude returns (True, reason of the first rule that
\* applies), in the order empty name, hidden prefix, patterns, executable
\* extension, not-exists, not-a-file, not-readable, symlink (when
\* exclude_symlinks), and (False, None) when none applies; a path that does
\* not exist with a name ending in ".exe" is an executable/system file, and a
\* symlink to a readable regular file is accepted when exclude_symlinks is
\* false.
C30_RuleOrder ==
  ex.done =>
    /\ Applying = {} => ex.out = <<FALSE, None>>
    /\ Applying # {} =>
         \E i \in Applying :
           /\ \A j \in Applying : i <= j
           /\ ex.out = <<TRUE, RulesInOrder[i][2]>>

\* a name ending in ".exe" at a path that does not exist, excluded as an
\* executable
C30_Witness ==
  /\ ex.done /\ ex.name = <<"x", ".", "e", "x", "e">>
  /\ ~ex.attr.exists
  /\ <<".", "e", "x", "e">> \in ExExtensions
  /\ ex.out = <<TRUE, "executable/system file">>

(***************************************************************************)
(* C31                                                                     *)
(***************************************************************************)
\* a rule before the live checks applies to the name
EarlierRuleApplies ==
  \/ ex.name = <<>>
  \/ ex.name[1] \in {".", "~"}
  \/ \E p \in ExPatterns : PatternMatches(ex.name, p)
  \/ \E e \in ExExtensions : EndsWith(Lower(ex.name), e)

\* the check that raises is made: no check before it has returned, and the
\* symlink check is made only when exclude_symlinks is set
RaisingCheckMade ==
  /\ ~EarlierRuleApplies
  /\ CASE ex.attr.error = "exists" -> TRUE
       [] ex.attr.error = "is_file" -> ex.attr.exists
       [] ex.attr.error = "access" -> ex.attr.exists /\ ex.attr.is_file
       [] ex.attr.error = "is_symlink" ->
            /\ ex.attr.exists /\ ex.attr.is_file /\ ex.attr.readable
            /\ ex.config.exclude_symlinks
       [] OTHER -> FALSE

\* C31: when a live check of should_exclude raises, should_exclude returns
\* (True, reason with the text of the error) and the loop of the scan does
\* not append the file; whatever raises, the call returns a pair whose first
\* part is a boolean (it does not raise).
C31_FailClosed ==
  ex.done =>
    /\ ex.out[1] \in BOOLEAN
    /\ RaisingCheckMade =>
         /\ ex.out = <<TRUE, "file access error: EIO">>
         /\ ~ex.kept

\* the readability check of an existing regular file has raised
C31_Witness ==
  /\ ex.done /\ RaisingCheckMade
  /\ ex.attr.error = "access"
  /\ ex.name = <<"a", ".", "t", "x", "t">>
  /\ ex.out[1] /\ ~ex.kept

(***************************************************************************)
(* C32                                                                     *)
(***************************************************************************)
\* the caller is between the cache test of a scan and its replacement of the
\* cache
InScanSequence(t) == th[t].pc \in {"scan_list", "scan_store"}

\* C32: the check-cache / list-directory / replace-cache sequences of two
\* scans on one engine never interleave: at most one caller is between the
\* cache test and the replacement of the cache.
C32_ScansSerialized ==
  \A t, u \in Threads : (InScanSequence(t) /\ InScanSequence(u)) => t = u

(***************************************************************************)
(* C33                                                                     *)
(***************************************************************************)
\* the caller is inside reset_history_if_needed, before the save of a reset
InResetCall(t) ==
  \/ th[t].pc \in {"reset_check", "reset_scanned"}
  \/ /\ th[t].scanRet = "reset"
     /\ th[t].pc \in {"scan_check", "scan_list", "scan_store"}

\* the forced scan came back with a qualified file: the call resets
ResetDecided(t) ==
  th[t].pc = "reset_scanned" /\ th[t].scanOk /\ th[t].qualified # <<>>

\* C33: reset_history_if_needed does not scan and returns at once when the
\* available list is not empty; when the forced scan fails or finds no
\* qualified file it returns the empty list and the record it was given;
\* in all three cases no step of the call changes the history file, the
\* record (reset_count included) or the LRU caches, and none drops the
\* cached list of qualified files.
C33_NoResetFrame ==
  [][\A t \in Threads :
       /\ (th[t].pc = "reset_check" /\ th[t].available # <<>>)
            => /\ th'[t].pc \in {"reset_check", "select"}
               /\ th'[t].sc = th[t].sc
               /\ scanned' = scanned
       /\ (InResetCall(t) /\ ~ResetDecided(t))
            => /\ histFile' = histFile
               /\ tmpDisk' = tmpDisk
               /\ th'[t].history = th[t].history
               /\ th'[t].available = th[t].available
               /\ cache' = cache /\ hits' = hits /\ misses' = misses
               /\ qcache.set => qcache'.set
               /\ th'[t].didReset = th[t].didReset
       /\ (th[t].pc = "reset_scanned" /\ ~ResetDecided(t)
           /\ th'[t].pc # "reset_scanned")
            => /\ th'[t].available = <<>>
               /\ th'[t].history = th[t].given]_vars

\* a forced scan has failed for a caller whose record, with an opened file,
\* is the one in the history file, and the call has returned with an entry
\* still in the hash cache
C33_Witness ==
  \E t \in Threads :
    /\ th[t].pc = "scan_check" /\ th[t].scanRet = "stats"
    /\ th[t].selected = None /\ ~th[t].scanOk
    /\ th[t].available = <<>>
    /\ th[t].history.opened_files # <<>>
    /\ th[t].history = th[t].given
    /\ LoadRecord(histFile) = th[t].history
    /\ cache # <<>>

(***************************************************************************)
(* C34                                                                     *)
(***************************************************************************)
\* the run is at its finally clause after a failed scan, or with nothing
\* available after reset_history_if_needed
EndsWithoutCandidate(t) ==
  At(t, "cleanup") /\ ~th[t].raised
  /\ (th[t].scanFailed \/ th[t].available = <<>>)

\* C34: a run whose scan failed, or whose available list is still empty
\* after reset_history_if_needed, has selected no file, has called neither
\* the opener nor save_history, and the history file is as it was when the
\* run started.
C34_NothingDone ==
  \A t \in Threads :
    EndsWithoutCandidate(t) =>
      /\ th[t].selected = None /\ th[t].picks = 0
      /\ th[t].opens = 0
      /\ th[t].saves = 0
      /\ histFile = th[t].hist0

\* a run ends after a failed scan, with a history file written by an
\* earlier run
C34_Witness ==
  \E t \in Threads :
    /\ EndsWithoutCandidate(t) /\ th[t].scanFailed
    /\ histFile # Absent /\ histFile = th[t].hist0

(***************************************************************************)
(* C35                                                                     *)
(***************************************************************************)
ScanPcs == {"scan_check", "scan_list", "scan_store"}

SavePcs == {"save_begin", "save_write", "save_rename", "save_finally"}

\* the state of the attempt state machine a caller with locals r is in
PhaseOf(r) ==
  CASE r.pc = "idle" -> "Idle"
    [] r.pc \in {"load", "avail"} -> "Scanning"
    [] r.pc \in ScanPcs /\ r.scanRet = "avail" -> "Scanning"
    [] r.pc = "reset_check" -> "Scanned"
    [] r.pc \in ScanPcs /\ r.scanRet = "reset" -> "Resetting"
    [] r.pc = "reset_scanned" -> "Resetting"
    [] r.pc \in SavePcs /\ r.saveRet = "reset_saved" -> "ResetSuccessful"
    [] r.pc = "reset_saved" -> "ResetSuccessful"
    [] r.pc = "select" -> "HasCandidates"
    [] r.pc = "open" -> "Opening"
    [] r.pc = "record" -> "OutcomeKnown"
    [] r.pc \in SavePcs /\ r.saveRet = "stats" -> "Recorded"
    [] r.pc = "stats" -> "Persisted"
    [] r.pc \in ScanPcs /\ r.scanRet = "stats" /\ r.selected # None
         -> "Persisted"
    [] r.pc \in ScanPcs /\ r.scanRet = "stats" /\ r.selected = None
         -> "ResetNoFiles"
    [] r.pc = "cleanup" -> "Done"
    [] OTHER -> "Unknown"

\* the transitions of the attempt state machine
PhaseEdges ==
  { <<"Idle", "Scanning">>,
    <<"Scanning", "Done">>,            \* ScanFailed
    <<"Scanning", "Scanned">>,
    <<"Scanned", "HasCandidates">>,
    <<"Scanned", "Resetting">>,        \* Exhausted
    <<"Resetting", "ResetNoFiles">>,
    <<"Resetting", "ResetSuccessful">>,
    <<"ResetSuccessful", "HasCandidates">>,
    <<"HasCandidates", "Opening">>,    \* Selected
    <<"Opening", "OutcomeKnown">>,     \* OpenSucceeded | OpenFailed
    <<"OutcomeKnown", "Recorded">>,
    <<"Recorded", "Persisted">>,
    <<"Persisted", "Done">>,
    <<"ResetNoFiles", "Done">>,
    <<"Done", "Idle">> }

\* C35: every step of a run in which nothing is raised stays in its state of
\* the attempt state machine or follows one of its transitions (Scanning to
\* ScanFailed or Scanned; Scanned to HasCandidates or through Exhausted and
\* Resetting to ResetNoFiles or ResetSuccessful; then Selected, Opening,
\* Recorded, Persisted in that order); the run selects at most one file,
\* opens after selecting, records after the outcome is known and saves the
\* outcome after recording; no state is entered twice.
C35_AttemptStateMachine ==
  [][\A t \in Threads :
       ~th'[t].raised =>
         /\ PhaseOf(th[t]) # "Unknown" /\ PhaseOf(th'[t]) # "Unknown"
         /\ \/ PhaseOf(th'[t]) = PhaseOf(th[t])
            \/ <<PhaseOf(th[t]), PhaseOf(th'[t])>> \in PhaseEdges
         /\ th'[t].picks <= 1
         /\ th'[t].opens <= th'[t].picks
         /\ PhaseOf(th'[t]) \in {"OutcomeKnown", "Recorded", "Persisted"}
              => (th'[t].picks = 1 /\ th'[t].opens = 1)
         /\ PhaseOf(th'[t]) = "Persisted"
              => th'[t].saves = (IF th'[t].didReset THEN 2 ELSE 1)]_vars

\* a run that found nothing available, reset the history, selected, opened,
\* recorded and saved
C35_Witness ==
  \E t \in Threads :
    /\ th[t].pc = "stats" /\ ~th[t].raised
    /\ th[t].didReset
    /\ th[t].picks = 1 /\ th[t].opens = 1 /\ th[t].saves = 2

(***************************************************************************)
(* C36                                                                     *)
(***************************************************************************)
\* a configured cache size is <= 0, or hash_cache_size is 1 (which makes
\* the size of the access cache 0)
InvalidCapacity ==
  \/ eng.config.hash_cache_size <= 0
  \/ eng.config.pattern_cache_size <= 0
  \/ eng.config.encoding_cache_size <= 0
  \/ eng.config.file_type_cache_size <= 0
  \/ eng.config.hash_cache_size = 1

\* C36 (as claimed): the construction of an engine with an invalid
\* configured cache capacity fails with an error and produces no engine.
C36_InvalidCapacityFatal ==
  (eng.state # "none" /\ InvalidCapacity) =>
    (eng.state = "failed" /\ eng.error # None /\ eng.sizes = <<>>)

\* C36 (amended): the construction of an engine with an invalid configured
\* cache capacity does not fail: it produces an engine whose five caches
\* have the fixed capacities 50, 100, 20, 50 and 50 instead of the
\* configured ones (a valid configuration gives the configured capacities,
\* hash_cache_size // 2 for the access cache).
C36_InvalidCapacityFallsBack ==
  eng.state # "none" =>
    /\ eng.state = "made" /\ eng.error = None
    /\ InvalidCapacity => eng.sizes = <<50, 100, 20, 50, 50>>
    /\ ~InvalidCapacity =>
         eng.sizes = <<eng.config.hash_cache_size,
                       eng.config.pattern_cache_size,
                       eng.config.encoding_cache_size,
                       eng.config.hash_cache_size \div 2,
                       eng.config.file_type_cache_size>>
    /\ \A i \in 1..Len(eng.sizes) : eng.sizes[i] > 0

\* an engine was constructed with hash_cache_size = 1 and every other size
\* valid
C36_Witness ==
  /\ eng.state = "made"
  /\ eng.config.hash_cache_size = 1
  /\ eng.config.pattern_cache_size > 0
  /\ eng.config.encoding_cache_size > 0
  /\ eng.config.file_type_cache_size > 0
  /\ eng.sizes = <<50, 100, 20, 50, 50>>

(***************************************************************************)
(* C37                                                                     *)
(***************************************************************************)
\* the order of the claim: history_lock before _temp_files_lock; cache_lock,
\* the lock of a cache and the lock of the tracker before the lock of a
\* counter
LockRank(l) ==
  IF l \in {"history", "cache", "lru", "tracker"} THEN 1 ELSE 2

\* the caller's next step can be made
CanStep(t) ==
  /\ lprog[t] # <<>>
  /\ Head(lprog[t])[1] = "acquire" =>
       \/ lockOwner[Head(lprog[t])[2]].by = "free"
       \/ /\ lockOwner[Head(lprog[t])[2]].by = t
          /\ Head(lprog[t])[2] \in {"lru", "log"}

\* C37: no state is a deadlock (while a call is in progress, some caller
\* in a call can make its next step); a caller takes a lock only while it
\* holds locks that come earlier in the order; a caller whose call has
\* returned, normally or by an error path, holds no lock.
C37_NoDeadlock ==
  /\ (\E t \in Threads : lprog[t] # <<>>) => \E t \in Threads : CanStep(t)
  /\ \A t \in Threads :
       /\ \A i, j \in 1..Len(lheld[t]) :
            i < j => LockRank(lheld[t][i]) < LockRank(lheld[t][j])
       /\ lprog[t] = <<>> => lheld[t] = <<>>
  /\ \A l \in Locks :
       lockOwner[l].by = "free"
         <=> \A t \in Threads :
               \A i \in 1..Len(lheld[t]) : lheld[t][i] # l

\* one caller holds history_lock and _temp_files_lock inside save_history
\* while the other waits for history_lock
C37_Witness ==
  /\ lheld["t1"] = <<"history", "temp">>
  /\ lprog["t2"] # <<>> /\ Head(lprog["t2"]) = <<"acquire", "history">>
  /\ ~CanStep("t2") /\ CanStep("t1")

(***************************************************************************)
(* C38                                                                     *)
(***************************************************************************)
\* the caller has written its temp file and not yet renamed it
BetweenWriteAndRename(u) ==
  /\ th[u].pc = "save_rename"
  /\ th[u].temp_file \in DOMAIN tmpDisk

\* the step is the cleanup sweep of the caller's run
SweepStep(t) == th[t].pc = "cleanup" /\ th'[t].pc = "idle"

\* C38: the cleanup sweep of one caller leaves the temp file of another
\* caller's save_history, written and not yet renamed, on the disk.
C38_SweepSparesOthers ==
  [][\A t, u \in Threads :
       (t # u /\ SweepStep(t) /\ BetweenWriteAndRename(u))
         => th[u].temp_file \in DOMAIN tmpDisk']_vars

(***************************************************************************)
(* C39                                                                     *)
(***************************************************************************)
\* the step is one in which the write or the rename of the caller's
\* save_history fails
SaveFails(t) == th'[t].fails > th[t].fails

\* C39: a failure of the write of the temp file or of its rename inside
\* save_history raises nothing to the caller and leaves the history file
\* with the content it had; save_history then returns to the place it was
\* called from, and the run goes on from there as after a save that worked.
C39_FailedSaveIsQuiet ==
  [][\A t \in Threads :
       /\ SaveFails(t) =>
            /\ histFile' = histFile
            /\ th'[t].raised = th[t].raised
            /\ th'[t].saveRet = th[t].saveRet
            /\ th'[t].pc = "save_finally"
       /\ (th[t].pc = "save_finally" /\ th'[t].pc # "save_finally"
           /\ th[t].fails > 0 /\ ~th[t].raised) =>
            /\ th'[t].pc = th[t].saveRet
            /\ ~th'[t].raised]_vars

\* a run whose save of the outcome failed has gone on through
\* show_statistics to its end, with the history file as it found it
C39_Witness ==
  /\ th["t1"].pc = "cleanup"
  /\ th["t1"].fails > 0
  /\ th["t1"].picks = 1
  /\ th["t1"].saves = 1
  /\ ~th["t1"].raised
  /\ histFile = th["t1"].hist0

(***************************************************************************)
(* C40                                                                     *)
(***************************************************************************)
\* no caller is inside save_history
NoSaveInProgress == \A t \in Threads : th[t].pc \notin SavePcs

====
